---- MODULE Spec2Model ----
(***************************************************************************)
(* Collaborative whiteboard: the client's scene model (Whiteboard          *)
(* component), the inbound patch handlers, the persisted snapshot, and     *)
(* the room relay (server).                                                *)
(*                                                                         *)
(* Array indices carried by patches are the JavaScript 0-based indices;    *)
(* the object at JavaScript index i is element i + 1 of the TLA+ sequence. *)
(* Coordinates are integers.  Colours, texts and tools are opaque strings. *)
(***************************************************************************)
EXTENDS Integers, Sequences, FiniteSets, TLC

VARIABLES
    \* ---- one client (Whiteboard component state) ----
    objects,            \* useState([])   ordered scene objects
    stickyNotes,        \* useState([])   sticky-note collection
    remoteStrokes,      \* useRef({})     provisional strokes keyed by socket id
    tool,               \* prop           selected tool
    pointer,            \* the mouse: "up", "down", or "click" (released, click pending)
    viewportTransform,  \* useState({scale: 1, translateX: 0, translateY: 0})
    panStart,           \* useState({x:0,y:0})
    crashed,            \* an uncaught exception in a state updater has unmounted the tree
    selectedObject,     \* useState(null) index of the selected object, or NoIndex
    isDragging,         \* useState(false)
    dragOffset,         \* useState({x:0,y:0})
    isResizing,         \* useState(false)
    resizeHandle,       \* useState(null)
    resizeStartData,    \* useState(null)
    isDrawing,          \* useState(false)
    currentStroke,      \* useRef([])
    isDrawingShape,     \* useState(false)
    shapeStart,         \* useState(null)
    liveShape,          \* useState(null)
    isPanning,          \* useState(false)
    touches,            \* the contacts on the canvas (e.touches), in order of arrival
    touchMode,          \* useState(null) 'draw', 'pan', 'pinch', 'select'
    isTouching,         \* useState(false)
    lastTouchDistance,  \* useState(null)
    lastTouchCenter,    \* useState(null)
    cursorThrottle,     \* cursorThrottleRef of the canvas: the position the pending timer closed over, or NullRec
    presenceThrottle,   \* cursorThrottleRef of usePresence: TRUE while its timer is pending
    presenceSent,       \* what the last step sent on the presence channel
    selectedStickyNote,     \* useState(null)
    draggingStickyNote,     \* useState(null)
    stickyNoteDragOffset,   \* useState({x:0,y:0})
    resizingStickyNote,     \* useState(null)
    stickyNoteResizeHandle, \* useState(null)
    stickyNoteResizeStart,  \* useState(null)
    listenerNotes,      \* stickyNotes as the window listeners of the note gestures see it
    textInput,          \* useState(null)  position of the open text box
    undoStack,          \* useRef([])
    redoStack,          \* useRef([])
    emitted,            \* what the last handler of this client emitted (socket.emit)
    initialScene,       \* prop: JSON.parse(boardData.scene_json), or NullRec
    initialSceneLoaded, \* useRef(false)
    lastSavedScene,     \* lastSavedSceneRef
    autoSaveTimer,      \* autoSaveTimeoutRef: the scene the pending timer closed over, or NullRec
    sceneJson,          \* boards.scene_json, the persisted snapshot text
    \* ---- pure-handler harness ----
    before,             \* the scene a patch is applied to
    script,             \* the inbound patches to apply, in order
    applied,            \* how many patches of the script have been applied
    \* ---- relay (server) ----
    rooms,              \* rooms[roomId] = {canvasState, stickyNotes, users}
    adapter,            \* socket.io room membership: set of <<socket, room>>
    currentRoom,        \* per-connection closure variable currentRoom
    conn,               \* per socket: "new", "open" (connected) or "closed"
    inbox,              \* per socket: events the relay has emitted to it, in order
    uplink,             \* per socket: events sent to the relay, not yet handled
    \* ---- peers (one scene per socket) ----
    peerObjects,        \* per socket: that client's objects
    \* ---- bookkeeping ----
    lastEv,             \* the operation the last step performed
    ops                 \* number of operations performed

\* the touch state of the canvas
touchVars == <<touches, touchMode, isTouching, lastTouchDistance, lastTouchCenter>>

\* the cursor broadcast
cursorVars == <<cursorThrottle, presenceThrottle, presenceSent>>

\* the sticky-note gestures
noteVars == <<selectedStickyNote, draggingStickyNote, stickyNoteDragOffset,
              resizingStickyNote, stickyNoteResizeHandle, stickyNoteResizeStart,
              listenerNotes>>

\* the client's state besides the object sequence
sessionVars == <<stickyNotes, remoteStrokes, tool, pointer, viewportTransform, panStart,
                 crashed, selectedObject, isDragging, dragOffset, isResizing, resizeHandle,
                 resizeStartData, isDrawing, currentStroke, isDrawingShape, shapeStart,
                 liveShape, isPanning, textInput, undoStack, redoStack, emitted, touchVars,
                 cursorVars, noteVars>>
clientVars == <<objects, sessionVars>>
persistVars == <<initialScene, initialSceneLoaded, lastSavedScene, autoSaveTimer, sceneJson>>
harnessVars == <<before, script, applied>>
relayVars == <<rooms, adapter, currentRoom, conn, inbox, uplink>>
peerVars == <<peerObjects>>
vars == <<clientVars, persistVars, harnessVars, relayVars, peerVars, lastEv, ops>>

\* null where the other values are strings
Null == "null"
\* null where the other values are records
NullRec == [null |-> TRUE]
\* null where the other values are array indices
NoIndex == -1
\* lastTouchDistance when it is null
NoDistance == -1
\* null where the other values are JSON texts
NoJson == << >>

----------------------------------------------------------------------------
(* Bounds *)

MaxObjects == 2     \* longest object sequence a session builds
MaxOps == 3         \* tool changes, mouse presses, inbound events and saves per session
MaxScene == 2       \* longest object sequence a patch script is applied to
MaxApply == 2       \* how many times a replayed patch is applied
MaxTurns == 3       \* operations the members of a room issue in turn
MaxEdits == 2       \* buffer-changing events the relay handles in a run
MaxTouches == 2     \* contacts on the canvas at a time
MaxStroke == 2      \* points of the longest stroke a session draws
KeyRepeats == 13    \* keydown events of a key held down
Precision == 12     \* significant bits of a number of the viewport (a JavaScript number has 53)

----------------------------------------------------------------------------
(* Records as JavaScript objects *)

\* { ...a, ...b }: the fields of b override those of a
Spread(a, b) ==
    [k \in (DOMAIN a) \cup (DOMAIN b) |-> IF k \in DOMAIN b THEN b[k] ELSE a[k]]

\* const { f, ...rest } = a
Omit(a, f) == [k \in (DOMAIN a) \ {f} |-> a[k]]

Pt(px, py) == [x |-> px, y |-> py]

----------------------------------------------------------------------------
(* The numbers of the viewport.  scale, translateX and translateY are       *)
(* JavaScript numbers: binary floating-point, every operation rounded to    *)
(* the nearest number with Precision significant bits, ties to even.  A     *)
(* number is its fraction num/den in lowest terms, den > 0.                 *)

RECURSIVE Gcd(_, _)
Gcd(a, b) == IF b = 0 THEN a ELSE Gcd(b, a % b)

\* the fraction n/d in lowest terms
Quot(n, d) ==
    LET sn == IF d < 0 THEN -n ELSE n
        sd == IF d < 0 THEN -d ELSE d
        g == Gcd(IF sn < 0 THEN -sn ELSE sn, sd)
    IN [num |-> sn \div g, den |-> sd \div g]

\* the whole number n
Whole(n) == [num |-> n, den |-> 1]

RECURSIVE Pow2(_)
Pow2(k) == IF k = 0 THEN 1 ELSE 2 * Pow2(k - 1)

\* a number has a whole mantissa below Mantissa, a normal one of at least
\* HalfMantissa
Mantissa == Pow2(Precision)
HalfMantissa == Pow2(Precision - 1)

\* a/b rounded to the nearest whole number, a tie to the even one
RoundDiv(a, b) ==
    LET f == a \div b
        r == a % b
    IN IF 2 * r > b \/ (2 * r = b /\ f % 2 = 1) THEN f + 1 ELSE f

\* the number m * 2^k in lowest terms
RECURSIVE Scaled(_, _)
Scaled(m, k) ==
    IF k < 0 /\ m % 2 = 0 THEN Scaled(m \div 2, k + 1)
    ELSE IF k >= 0 THEN [num |-> m * Pow2(k), den |-> 1]
    ELSE [num |-> m, den |-> Pow2(- k)]

\* (n/d) * 2^k (n, d > 0) rounded to Precision significant bits: n/d is
\* brought between HalfMantissa and Mantissa, k keeping the value,
\* and rounded to a whole number there
RECURSIVE RoundPos(_, _, _)
RoundPos(n, d, k) ==
    IF n \div d >= Mantissa THEN
        IF n % 2 = 0 THEN RoundPos(n \div 2, d, k + 1) ELSE RoundPos(n, 2 * d, k + 1)
    ELSE IF n \div d < HalfMantissa THEN
        IF d % 2 = 0 THEN RoundPos(n, d \div 2, k - 1) ELSE RoundPos(2 * n, d, k - 1)
    ELSE Scaled(RoundDiv(n, d), k)

\* the number h with the sign sign
Signed(sign, h) == [num |-> sign * h.num, den |-> h.den]

\* the number nearest to the fraction q
Round(q) ==
    IF q.num = 0 THEN q
    ELSE IF q.den = 1 /\ q.num < Mantissa /\ -q.num < Mantissa THEN q
    ELSE Signed(IF q.num < 0 THEN -1 ELSE 1,
                RoundPos(IF q.num < 0 THEN -q.num ELSE q.num, q.den, 0))

\* a + b, a - b, a * b, a / b, a < b, Math.min, Math.max
FAdd(a, b) == Round(Quot(a.num * b.den + b.num * a.den, a.den * b.den))
FSub(a, b) == Round(Quot(a.num * b.den - b.num * a.den, a.den * b.den))
FMul(a, b) == Round(Quot(a.num * b.num, a.den * b.den))
FDiv(a, b) == Round(Quot(a.num * b.den, a.den * b.num))
FLess(a, b) == a.num * b.den < b.num * a.den
FMin(a, b) == IF FLess(b, a) THEN b ELSE a
FMax(a, b) == IF FLess(a, b) THEN b ELSE a

\* the literal n/d of the source
Literal(n, d) == Round(Quot(n, d))

\* useState({ scale: 1, translateX: 0, translateY: 0 })
InitialTransform == [scale |-> Whole(1), translateX |-> Whole(0), translateY |-> Whole(0)]

ShapeTypes == {"rectangle", "ellipse", "triangle"}
LineTypes == {"line", "arrow"}
KnownTypes == {"stroke", "text"} \cup ShapeTypes \cup LineTypes

\* obj.deleted is undefined (falsy) until a delete sets it
IsDeleted(obj) == "deleted" \in DOMAIN obj /\ obj.deleted

\* obj.type, undefined when the object carries none
TypeOf(obj) == IF "type" \in DOMAIN obj THEN obj.type ELSE Null

\* updated[index] is truthy: every element of the array is an object
HasIndex(objs, index) == index \in 0 .. (Len(objs) - 1)

At(objs, index) == objs[index + 1]

SetAt(objs, index, obj) == [objs EXCEPT ![index + 1] = obj]

----------------------------------------------------------------------------
(* Inbound patch handlers of the client: each is the updater passed to      *)
(* setObjects, a function from the previous sequence to the next one.       *)

\* socket.on("init")
OnInit(prev, initialState) == initialState

\* socket.on("text")
OnText(prev, data) == Append(prev, Spread([type |-> "text"], data))

\* socket.on("stroke"): the socketId is split off the payload
OnStroke(prev, data) == Append(prev, Spread([type |-> "stroke"], Omit(data, "socketId")))

\* socket.on("shape")
OnShape(prev, data) == Append(prev, data)

\* p => ({ x: p.x + deltaX, y: p.y + deltaY })
MovePoints(points, deltaX, deltaY) ==
    [n \in DOMAIN points |-> Pt(points[n].x + deltaX, points[n].y + deltaY)]

\* mutant: a line or arrow moves its first endpoint only
MoveObjectOneEnd(obj, deltaX, deltaY) ==
    IF "type" \notin DOMAIN obj THEN obj
    ELSE IF obj.type = "stroke" THEN
        Spread(obj, [points |-> MovePoints(obj.points, deltaX, deltaY)])
    ELSE IF obj.type \in {"text"} \cup ShapeTypes THEN
        Spread(obj, [x |-> obj.x + deltaX, y |-> obj.y + deltaY])
    ELSE IF obj.type \in LineTypes THEN
        Spread(obj, [x1 |-> obj.x1 + deltaX, y1 |-> obj.y1 + deltaY])
    ELSE obj

\* the branch on obj.type shared by the move handlers
MoveObject(obj, deltaX, deltaY) ==
    IF "type" \notin DOMAIN obj THEN obj
    ELSE IF obj.type = "stroke" THEN
        Spread(obj, [points |-> MovePoints(obj.points, deltaX, deltaY)])
    ELSE IF obj.type = "text" THEN
        Spread(obj, [x |-> obj.x + deltaX, y |-> obj.y + deltaY])
    ELSE IF obj.type \in ShapeTypes THEN
        Spread(obj, [x |-> obj.x + deltaX, y |-> obj.y + deltaY])
    ELSE IF obj.type \in LineTypes THEN
        Spread(obj, [x1 |-> obj.x1 + deltaX, y1 |-> obj.y1 + deltaY,
                     x2 |-> obj.x2 + deltaX, y2 |-> obj.y2 + deltaY])
    ELSE obj

\* socket.on("move")
OnMove(prev, index, deltaX, deltaY) ==
    IF HasIndex(prev, index)
    THEN SetAt(prev, index, MoveObject(At(prev, index), deltaX, deltaY))
    ELSE prev

\* socket.on("resize"): text font size
OnResize(prev, index, fontSize) ==
    IF HasIndex(prev, index) /\ TypeOf(At(prev, index)) = "text"
    THEN SetAt(prev, index, Spread(At(prev, index), [fontSize |-> fontSize]))
    ELSE prev

\* socket.on("resizeStroke")
OnResizeStroke(prev, index, points) ==
    IF HasIndex(prev, index) /\ TypeOf(At(prev, index)) = "stroke"
    THEN SetAt(prev, index, Spread(At(prev, index), [points |-> points]))
    ELSE prev

\* mutant: the size is applied to whatever object sits at the index
OnResizeShapeAnyType(prev, index, x, y, width, height) ==
    IF HasIndex(prev, index)
    THEN SetAt(prev, index,
               Spread(At(prev, index), [x |-> x, y |-> y, width |-> width, height |-> height]))
    ELSE prev

\* socket.on("resizeShape")
OnResizeShape(prev, index, x, y, width, height) ==
    IF HasIndex(prev, index) /\ TypeOf(At(prev, index)) \in ShapeTypes
    THEN SetAt(prev, index,
               Spread(At(prev, index), [x |-> x, y |-> y, width |-> width, height |-> height]))
    ELSE prev

\* mutant: the endpoints are treated as deltas, like a move
OnResizeLineRelative(prev, index, x1, y1, x2, y2) ==
    IF HasIndex(prev, index) /\ TypeOf(At(prev, index)) \in LineTypes
    THEN SetAt(prev, index,
               Spread(At(prev, index),
                      [x1 |-> At(prev, index).x1 + x1, y1 |-> At(prev, index).y1 + y1,
                       x2 |-> At(prev, index).x2 + x2, y2 |-> At(prev, index).y2 + y2]))
    ELSE prev

\* socket.on("resizeLine")
OnResizeLine(prev, index, x1, y1, x2, y2) ==
    IF HasIndex(prev, index) /\ TypeOf(At(prev, index)) \in LineTypes
    THEN SetAt(prev, index, Spread(At(prev, index), [x1 |-> x1, y1 |-> y1, x2 |-> x2, y2 |-> y2]))
    ELSE prev

\* socket.on("clear")
OnClear(prev) == << >>

\* mutant: the entry is removed from the array instead of being flagged
OnDeleteSplice(prev, index) ==
    IF HasIndex(prev, index)
    THEN SubSeq(prev, 1, index) \o SubSeq(prev, index + 2, Len(prev))
    ELSE prev

\* socket.on("delete")
OnDelete(prev, index) ==
    IF HasIndex(prev, index)
    THEN SetAt(prev, index, Spread(At(prev, index), [deleted |-> TRUE]))
    ELSE prev

\* the dispatch of an inbound event p to its handler
HandleInbound(prev, p) ==
    CASE p.kind = "init" -> OnInit(prev, p.initialState)
      [] p.kind = "text" -> OnText(prev, p.data)
      [] p.kind = "stroke" -> OnStroke(prev, p.data)
      [] p.kind = "shape" -> OnShape(prev, p.data)
      [] p.kind = "move" -> OnMove(prev, p.index, p.deltaX, p.deltaY)
      [] p.kind = "resize" -> OnResize(prev, p.index, p.fontSize)
      [] p.kind = "resizeStroke" -> OnResizeStroke(prev, p.index, p.points)
      [] p.kind = "resizeShape" -> OnResizeShape(prev, p.index, p.x, p.y, p.width, p.height)
      [] p.kind = "resizeLine" -> OnResizeLine(prev, p.index, p.x1, p.y1, p.x2, p.y2)
      [] p.kind = "clear" -> OnClear(prev)
      [] p.kind = "delete" -> OnDelete(prev, p.index)
      [] OTHER -> prev

----------------------------------------------------------------------------
(* Input spaces: the objects this client creates and the patches it emits   *)

Black == "#000"

\* stopDrawing: newStroke
NewStroke(points, t) ==
    [type |-> "stroke", points |-> points, color |-> Black, size |-> 4, tool |-> t]

\* handleTextSubmit: newText
NewText(str, px, py) ==
    [type |-> "text", text |-> str, x |-> px, y |-> py, color |-> Black, fontSize |-> 20]

\* startDrawing / draw: liveShape of a rectangle, ellipse or triangle
NewShape(t, px, py, w, h) ==
    [type |-> t, x |-> px, y |-> py, width |-> w, height |-> h, color |-> Black, size |-> 4]

\* startDrawing / draw: liveShape of a line or arrow
NewLine(t, px1, py1, px2, py2) ==
    [type |-> t, x1 |-> px1, y1 |-> py1, x2 |-> px2, y2 |-> py2, color |-> Black, size |-> 4]

LiveObjects ==
    {NewStroke(<<Pt(0, 0), Pt(10, 5)>>, "pen"), NewText("hi", 0, 20)}
    \cup {NewShape(t, 0, 0, 20, 10) : t \in ShapeTypes}
    \cup {NewLine(t, 0, 0, 20, 10) : t \in LineTypes}

\* an object of a variant this client does not know (the shape handler stores
\* whatever the relay forwards)
AlienObject == [type |-> "image", x |-> 0, y |-> 0]

SceneObjects ==
    LiveObjects \cup {Spread(NewText("hi", 0, 20), [deleted |-> TRUE]), AlienObject}

RECURSIVE SeqsUpTo(_, _)
SeqsUpTo(S, n) ==
    IF n = 0 THEN {<< >>}
    ELSE LET shorter == SeqsUpTo(S, n - 1)
         IN shorter \cup {Append(q, e) : q \in {r \in shorter : Len(r) = n - 1}, e \in S}

SceneSpace == SeqsUpTo(SceneObjects, MaxScene)

\* indices a patch may carry: below, inside and beyond the sequence
IndexSpace(n) == -1 .. n

MoveDeltas == {<<5, 0>>, <<-5, 10>>}

MovePatches(n) ==
    {[kind |-> "move", index |-> i, deltaX |-> d[1], deltaY |-> d[2]] :
        i \in IndexSpace(n), d \in MoveDeltas}

ResizePatches(n) ==
    {[kind |-> "resize", index |-> i, fontSize |-> 40] : i \in IndexSpace(n)}
    \cup {[kind |-> "resizeStroke", index |-> i, points |-> <<Pt(3, 3)>>] : i \in IndexSpace(n)}
    \cup {[kind |-> "resizeShape", index |-> i, x |-> 10, y |-> 10, width |-> 50, height |-> 50] :
            i \in IndexSpace(n)}
    \cup {[kind |-> "resizeLine", index |-> i, x1 |-> 1, y1 |-> 2, x2 |-> 3, y2 |-> 4] :
            i \in IndexSpace(n)}

DeletePatches(n) == {[kind |-> "delete", index |-> i] : i \in IndexSpace(n)}

CommitPatches ==
    {[kind |-> "stroke", data |-> Spread([socketId |-> "s1"], NewStroke(<<Pt(0, 0)>>, "pen"))],
     [kind |-> "text", data |-> NewText("yo", 5, 5)],
     [kind |-> "shape", data |-> NewShape("rectangle", 0, 0, 10, 10)],
     [kind |-> "shape", data |-> NewLine("arrow", 0, 0, 10, 10)]}

IndexedPatches(n) == MovePatches(n) \cup ResizePatches(n) \cup DeletePatches(n)

----------------------------------------------------------------------------
(* Initial values of each group of variables *)

Sockets == {"s1", "s2"}
Rooms == {"r1", "r2"}

\* { canvasState: [], stickyNotes: [], users: {} }
EmptyRoom == [canvasState |-> << >>, stickyNotes |-> << >>, users |-> {}]

\* no contact on the canvas
TouchIdle ==
    /\ touches = << >>
    /\ touchMode = Null
    /\ isTouching = FALSE
    /\ lastTouchDistance = NoDistance
    /\ lastTouchCenter = NullRec

\* no cursor broadcast pending
CursorIdle ==
    /\ cursorThrottle = NullRec
    /\ presenceThrottle = FALSE
    /\ presenceSent = << >>

\* no sticky note selected, dragged or resized
NotesIdle ==
    /\ selectedStickyNote = Null
    /\ draggingStickyNote = Null
    /\ stickyNoteDragOffset = Pt(0, 0)
    /\ resizingStickyNote = Null
    /\ stickyNoteResizeHandle = Null
    /\ stickyNoteResizeStart = NullRec
    /\ listenerNotes = << >>

\* the Whiteboard component with the sticky notes and the undo stack given,
\* every other piece of state as useState and useRef initialise it
SessionState(notes, stack) ==
    /\ stickyNotes = notes
    /\ remoteStrokes = << >>
    /\ tool = "pen"
    /\ pointer = "up"
    /\ viewportTransform = InitialTransform
    /\ panStart = Pt(0, 0)
    /\ crashed = FALSE
    /\ selectedObject = NoIndex
    /\ isDragging = FALSE
    /\ dragOffset = Pt(0, 0)
    /\ isResizing = FALSE
    /\ resizeHandle = Null
    /\ resizeStartData = NullRec
    /\ isDrawing = FALSE
    /\ currentStroke = << >>
    /\ isDrawingShape = FALSE
    /\ shapeStart = NullRec
    /\ liveShape = NullRec
    /\ isPanning = FALSE
    /\ textInput = NullRec
    /\ undoStack = stack
    /\ redoStack = << >>
    /\ emitted = << >>
    /\ TouchIdle
    /\ CursorIdle
    /\ NotesIdle

\* the Whiteboard component right after its first render
SessionInit == SessionState(<< >>, << >>)

ClientInit == objects = << >> /\ SessionInit

PersistIdle ==
    /\ initialScene = NullRec
    /\ initialSceneLoaded = FALSE
    /\ lastSavedScene = NoJson
    /\ autoSaveTimer = NullRec
    /\ sceneJson = NoJson

HarnessIdle ==
    /\ before = << >>
    /\ script = << >>
    /\ applied = 0

\* the server right after start: no room, no connection
RelayIdle ==
    /\ rooms = [r \in {} |-> EmptyRoom]
    /\ adapter = {}
    /\ currentRoom = [s \in Sockets |-> Null]
    /\ conn = [s \in Sockets |-> "new"]
    /\ inbox = [s \in Sockets |-> << >>]
    /\ uplink = [s \in Sockets |-> << >>]

PeersIdle == peerObjects = [s \in Sockets |-> << >>]

NoEvent == [kind |-> "none"]

----------------------------------------------------------------------------
(* SpecPatch: the inbound handlers as pure functions.  A scene and a script  *)
(* of patches are drawn; the script is applied patch by patch.              *)

\* the same patch delivered MaxApply times
ReplayScripts(n) == {[k \in 1 .. MaxApply |-> p] : p \in IndexedPatches(n)}

\* tombstone slot i, append an object, then move slot i
TombstoneScripts(n) ==
    {<<[kind |-> "delete", index |-> i], c,
       [kind |-> "move", index |-> i, deltaX |-> d[1], deltaY |-> d[2]]>> :
        i \in 0 .. (n - 1), c \in CommitPatches, d \in MoveDeltas}

InitPatch ==
    /\ before \in SceneSpace
    /\ script \in ReplayScripts(MaxScene) \cup TombstoneScripts(Len(before))
    /\ applied = 0
    /\ objects = before
    /\ SessionInit
    /\ PersistIdle /\ RelayIdle /\ PeersIdle
    /\ lastEv = NoEvent
    /\ ops = 0

NextPatchOf(kinds) ==
    /\ applied < Len(script)
    /\ script[applied + 1].kind \in kinds
    /\ objects' = HandleInbound(objects, script[applied + 1])
    /\ applied' = applied + 1
    /\ lastEv' = script[applied + 1]
    /\ UNCHANGED <<sessionVars, persistVars, before, script, relayVars, peerVars, ops>>

ApplyCommit == NextPatchOf({"stroke", "text", "shape"})
ApplyMove == NextPatchOf({"move"})
ApplyResize == NextPatchOf({"resize", "resizeStroke", "resizeShape", "resizeLine"})
ApplyDelete == NextPatchOf({"delete"})

NextPatch == ApplyCommit \/ ApplyMove \/ ApplyResize \/ ApplyDelete

SpecPatch == InitPatch /\ [][NextPatch]_vars

----------------------------------------------------------------------------
(* The relay (server).  rooms has an entry for a room from its first        *)
(* join-room on.                                                            *)
(* An event a socket sends is a record with the event name in kind, the     *)
(* room id in roomId and the rest of the payload; what the relay forwards   *)
(* is the payload without roomId.                                           *)

\* the sockets socket.io holds in room r
Members(r) == {t \in Sockets : <<t, r>> \in adapter}

NoDelivery == [t \in Sockets |-> << >>]

ToRoomAll(s, r, e) == [t \in Sockets |-> IF t \in Members(r) THEN <<e>> ELSE << >>]

\* socket.to(r).emit(e): every socket in room r except the sender
ToRoom(s, r, e) == [t \in Sockets |-> IF t \in Members(r) \ {s} THEN <<e>> ELSE << >>]

\* socket.emit(e1), socket.emit(e2), ...: the sender only
ToSocket(s, es) == [t \in Sockets |-> IF t = s THEN es ELSE << >>]

Cat(d1, d2) == [t \in Sockets |-> d1[t] \o d2[t]]

\* a relay whose move leaves the texts where they are
RelayMoveObjectButText(obj, deltaX, deltaY) ==
    IF "type" \notin DOMAIN obj THEN obj
    ELSE IF obj.type = "stroke" THEN
        Spread(obj, [points |-> MovePoints(obj.points, deltaX, deltaY)])
    ELSE IF obj.type \in ShapeTypes THEN
        Spread(obj, [x |-> obj.x + deltaX, y |-> obj.y + deltaY])
    ELSE IF obj.type \in LineTypes THEN
        Spread(obj, [x1 |-> obj.x1 + deltaX, y1 |-> obj.y1 + deltaY,
                     x2 |-> obj.x2 + deltaX, y2 |-> obj.y2 + deltaY])
    ELSE obj

\* socket.on("move"): the branch on obj.type, on the buffered entry
RelayMoveObject(obj, deltaX, deltaY) ==
    IF "type" \notin DOMAIN obj THEN obj
    ELSE IF obj.type = "stroke" THEN
        Spread(obj, [points |-> MovePoints(obj.points, deltaX, deltaY)])
    ELSE IF obj.type = "text" THEN
        Spread(obj, [x |-> obj.x + deltaX, y |-> obj.y + deltaY])
    ELSE IF obj.type \in ShapeTypes THEN
        Spread(obj, [x |-> obj.x + deltaX, y |-> obj.y + deltaY])
    ELSE IF obj.type \in LineTypes THEN
        Spread(obj, [x1 |-> obj.x1 + deltaX, y1 |-> obj.y1 + deltaY,
                     x2 |-> obj.x2 + deltaX, y2 |-> obj.y2 + deltaY])
    ELSE obj

\* socket.on("text"), socket.on("stroke"), socket.on("shape"): canvasState.push
RelayPush(canvasState, data) == Append(canvasState, data)

\* socket.on("move")
RelayMove(canvasState, index, deltaX, deltaY) ==
    IF HasIndex(canvasState, index)
    THEN SetAt(canvasState, index, RelayMoveObject(At(canvasState, index), deltaX, deltaY))
    ELSE canvasState

\* socket.on("resize")
RelayResize(canvasState, index, fontSize) ==
    IF HasIndex(canvasState, index) /\ TypeOf(At(canvasState, index)) = "text"
    THEN SetAt(canvasState, index, Spread(At(canvasState, index), [fontSize |-> fontSize]))
    ELSE canvasState

\* socket.on("resizeStroke")
RelayResizeStroke(canvasState, index, points) ==
    IF HasIndex(canvasState, index) /\ TypeOf(At(canvasState, index)) = "stroke"
    THEN SetAt(canvasState, index, Spread(At(canvasState, index), [points |-> points]))
    ELSE canvasState

\* socket.on("resizeShape")
RelayResizeShape(canvasState, index, x, y, width, height) ==
    IF HasIndex(canvasState, index) /\ TypeOf(At(canvasState, index)) \in ShapeTypes
    THEN SetAt(canvasState, index,
               Spread(At(canvasState, index),
                      [x |-> x, y |-> y, width |-> width, height |-> height]))
    ELSE canvasState

\* socket.on("resizeLine")
RelayResizeLine(canvasState, index, x1, y1, x2, y2) ==
    IF HasIndex(canvasState, index) /\ TypeOf(At(canvasState, index)) \in LineTypes
    THEN SetAt(canvasState, index,
               Spread(At(canvasState, index), [x1 |-> x1, y1 |-> y1, x2 |-> x2, y2 |-> y2]))
    ELSE canvasState

\* socket.on("clear")
RelayClear(canvasState) == << >>

\* mutant: the flag is set on the entry after the one addressed
RelayDeleteNext(canvasState, index) ==
    IF HasIndex(canvasState, index + 1)
    THEN SetAt(canvasState, index + 1, Spread(At(canvasState, index + 1), [deleted |-> TRUE]))
    ELSE canvasState

\* socket.on("delete")
RelayDelete(canvasState, index) ==
    IF HasIndex(canvasState, index)
    THEN SetAt(canvasState, index, Spread(At(canvasState, index), [deleted |-> TRUE]))
    ELSE canvasState

\* what an event does to rooms[roomId].canvasState
RelayBuffer(canvasState, ev) ==
    CASE ev.kind \in {"text", "stroke", "shape"} -> RelayPush(canvasState, ev.data)
      [] ev.kind = "move" -> RelayMove(canvasState, ev.index, ev.deltaX, ev.deltaY)
      [] ev.kind = "resize" -> RelayResize(canvasState, ev.index, ev.fontSize)
      [] ev.kind = "resizeStroke" -> RelayResizeStroke(canvasState, ev.index, ev.points)
      [] ev.kind = "resizeShape" ->
            RelayResizeShape(canvasState, ev.index, ev.x, ev.y, ev.width, ev.height)
      [] ev.kind = "resizeLine" ->
            RelayResizeLine(canvasState, ev.index, ev.x1, ev.y1, ev.x2, ev.y2)
      [] ev.kind = "clear" -> RelayClear(canvasState)
      [] ev.kind = "delete" -> RelayDelete(canvasState, ev.index)
      [] OTHER -> canvasState

\* rooms[roomId].stickyNotes.find(n => n.id === id), then assign the fields
UpdateNote(notes, id, fields) ==
    LET hits == {n \in DOMAIN notes : notes[n].id = id}
    IN IF hits = {} THEN notes
       ELSE LET first == CHOOSE n \in hits : \A m \in hits : n <= m
            IN [notes EXCEPT ![first] = Spread(@, fields)]

\* what an event does to rooms[roomId].stickyNotes
RelayNotes(notes, ev) ==
    CASE ev.kind = "stickyNote:create" -> Append(notes, Omit(Omit(ev, "roomId"), "kind"))
      [] ev.kind = "stickyNote:update" -> UpdateNote(notes, ev.id, [text |-> ev.text])
      [] ev.kind = "stickyNote:move" -> UpdateNote(notes, ev.id, [x |-> ev.x, y |-> ev.y])
      [] ev.kind = "stickyNote:resize" ->
            UpdateNote(notes, ev.id,
                       [x |-> ev.x, y |-> ev.y, width |-> ev.width, height |-> ev.height])
      [] ev.kind = "stickyNote:delete" -> SelectSeq(notes, LAMBDA n : n.id # ev.id)
      [] OTHER -> notes

BufferKinds ==
    {"text", "stroke", "shape", "move", "resize", "resizeStroke", "resizeShape",
     "resizeLine", "clear", "delete"}
NoteKinds ==
    {"stickyNote:create", "stickyNote:update", "stickyNote:move", "stickyNote:resize",
     "stickyNote:delete"}
\* handlers that forward without looking at rooms[roomId]
PlainKinds == {"draw", "undo", "redo", "cursor:leave"}

\* the payload the relay forwards for an event ev of socket s
Forwarded(s, ev) ==
    CASE ev.kind \in {"draw"} -> Spread(Omit(ev, "roomId"), [socketId |-> s])
      [] ev.kind = "stroke" -> [kind |-> "stroke", data |-> Spread(ev.data, [socketId |-> s])]
      [] ev.kind = "cursor:move" ->
            [kind |-> "cursor:move", odId |-> s, x |-> ev.x, y |-> ev.y,
             userName |-> s, userColor |-> s]
      [] ev.kind = "cursor:leave" -> [kind |-> "cursor:leave", odId |-> s]
      [] OTHER -> Omit(ev, "roomId")

\* the relay accepts ev: its handler passes its guard and forwards
Accepts(s, ev) ==
    CASE ev.kind \in PlainKinds -> TRUE
      [] ev.kind = "cursor:move" ->
            ev.roomId \in DOMAIN rooms /\ s \in rooms[ev.roomId].users
      [] OTHER -> ev.roomId \in DOMAIN rooms

\* rooms after the handler of ev has run
RoomsAfter(s, ev) ==
    IF Accepts(s, ev) /\ ev.kind \in BufferKinds \cup NoteKinds
    THEN [rooms EXCEPT ![ev.roomId] =
            [@ EXCEPT !.canvasState = RelayBuffer(@, ev),
                      !.stickyNotes = RelayNotes(@, ev)]]
    ELSE rooms

\* what the handler of ev emits
Emits(s, ev) ==
    IF Accepts(s, ev) THEN ToRoom(s, ev.roomId, Forwarded(s, ev)) ELSE NoDelivery

\* io.on("connection"): a new socket; currentRoom = null
RelayConnect(s) ==
    /\ conn[s] = "new"
    /\ conn' = [conn EXCEPT ![s] = "open"]
    /\ currentRoom' = [currentRoom EXCEPT ![s] = Null]

\* socket.on("join-room"); base holds the deliveries still in flight
RelayJoinRoom(s, roomId, base) ==
    LET room == IF roomId \in DOMAIN rooms THEN rooms[roomId] ELSE EmptyRoom
        joined == adapter \cup {<<s, roomId>>}
        note(n) == Spread([kind |-> "stickyNote:create"], room.stickyNotes[n])
    IN /\ conn[s] = "open"
       /\ adapter' = joined
       /\ currentRoom' = [currentRoom EXCEPT ![s] = roomId]
       /\ rooms' = [r \in (DOMAIN rooms) \cup {roomId} |->
                        IF r = roomId THEN [room EXCEPT !.users = @ \cup {s}] ELSE rooms[r]]
       /\ inbox' = Cat(base,
                       Cat(ToRoom(s, roomId, [kind |-> "user:joined", odId |-> s]),
                           ToSocket(s, <<[kind |-> "init", initialState |-> room.canvasState]>>
                                       \o [n \in DOMAIN room.stickyNotes |-> note(n)])))

\* socket.on("disconnect"): socket.io has already taken the socket out of its rooms
RelayDisconnect(s, base) ==
    LET left == {m \in adapter : m[1] # s}
        room == currentRoom[s]
        notify == room # Null /\ room \in DOMAIN rooms
        others == {t \in Sockets : <<t, room>> \in left}
    IN /\ conn[s] = "open"
       /\ conn' = [conn EXCEPT ![s] = "closed"]
       /\ adapter' = left
       /\ rooms' = IF notify THEN [rooms EXCEPT ![room].users = @ \ {s}] ELSE rooms
       /\ inbox' = Cat(base,
                       [t \in Sockets |->
                           IF notify /\ t \in others
                           THEN <<[kind |-> "user:left", odId |-> s],
                                  [kind |-> "cursor:leave", odId |-> s]>>
                           ELSE << >>])
       /\ UNCHANGED currentRoom

\* the handler of a data event ev sent by socket s
RelayReceive(s, ev, base) ==
    /\ conn[s] = "open"
    /\ rooms' = RoomsAfter(s, ev)
    /\ inbox' = Cat(base, Emits(s, ev))
    /\ UNCHANGED <<adapter, currentRoom, conn>>

----------------------------------------------------------------------------
(* SpecRelay: the relay under arbitrary senders.  A connected socket may    *)
(* send any event with any room id.  The transport hands over what a        *)
(* handler emitted before the next handler runs (Deliver), so inbox holds   *)
(* the emissions of the handler lastEv names.                               *)

PatchEvents(r) ==
    {[kind |-> "move", roomId |-> r, index |-> i, deltaX |-> 5, deltaY |-> -5] : i \in {0, 1}}
    \cup {[kind |-> "resize", roomId |-> r, index |-> 0, fontSize |-> 40],
          [kind |-> "resizeStroke", roomId |-> r, index |-> 0, points |-> <<Pt(3, 3)>>],
          [kind |-> "resizeShape", roomId |-> r, index |-> 0,
           x |-> 10, y |-> 10, width |-> 50, height |-> 50],
          [kind |-> "resizeLine", roomId |-> r, index |-> 0,
           x1 |-> 1, y1 |-> 2, x2 |-> 3, y2 |-> 4],
          [kind |-> "delete", roomId |-> r, index |-> 0],
          [kind |-> "clear", roomId |-> r]}

CommitEvents(s, r) ==
    {[kind |-> "stroke", roomId |-> r,
      data |-> Spread([socketId |-> s], NewStroke(<<Pt(0, 0)>>, "pen"))],
     [kind |-> "text", roomId |-> r, data |-> NewText("yo", 5, 5)],
     [kind |-> "shape", roomId |-> r, data |-> NewShape("rectangle", 0, 0, 10, 10)],
     [kind |-> "shape", roomId |-> r, data |-> NewLine("arrow", 0, 0, 10, 10)]}

Note1 ==
    [id |-> "n1", x |-> 0, y |-> 0, width |-> 200, height |-> 200,
     text |-> "Double-click to edit", color |-> "#ffd700", zIndex |-> 0]

NoteEvents(r) ==
    {Spread([kind |-> "stickyNote:create", roomId |-> r], Note1),
     [kind |-> "stickyNote:update", roomId |-> r, id |-> "n1", text |-> "ok"],
     [kind |-> "stickyNote:move", roomId |-> r, id |-> "n1", x |-> 5, y |-> 5],
     [kind |-> "stickyNote:resize", roomId |-> r, id |-> "n1",
      x |-> 0, y |-> 0, width |-> 100, height |-> 100],
     [kind |-> "stickyNote:delete", roomId |-> r, id |-> "n1"]}

TransientEvents(s, r) ==
    {[kind |-> "draw", roomId |-> r, socketId |-> s, x |-> 0, y |-> 0,
      color |-> Black, size |-> 4, tool |-> "pen", isStart |-> TRUE],
     [kind |-> "undo", roomId |-> r, imageData |-> "png"],
     [kind |-> "redo", roomId |-> r, imageData |-> "png"],
     [kind |-> "cursor:move", roomId |-> r, x |-> 1, y |-> 1],
     [kind |-> "cursor:leave", roomId |-> r]}

InitRelay ==
    /\ ClientInit /\ PersistIdle /\ HarnessIdle /\ RelayIdle /\ PeersIdle
    /\ lastEv = NoEvent
    /\ ops = 0

RelayFrame == UNCHANGED <<clientVars, persistVars, harnessVars, peerVars, uplink>>

Connect ==
    \E s \in Sockets :
        /\ lastEv = NoEvent
        /\ RelayConnect(s)
        /\ lastEv' = [kind |-> "connection", from |-> s]
        /\ inbox' = NoDelivery
        /\ UNCHANGED <<rooms, adapter, ops>>
        /\ RelayFrame

JoinRoom ==
    \E s \in Sockets, r \in Rooms :
        /\ lastEv = NoEvent
        /\ RelayJoinRoom(s, r, NoDelivery)
        /\ lastEv' = [kind |-> "join-room", from |-> s, roomId |-> r]
        /\ UNCHANGED <<conn, ops>>
        /\ RelayFrame

Disconnect ==
    \E s \in Sockets :
        /\ lastEv = NoEvent
        /\ RelayDisconnect(s, NoDelivery)
        /\ lastEv' = [kind |-> "disconnect", from |-> s, roomId |-> currentRoom[s]]
        /\ UNCHANGED ops
        /\ RelayFrame

\* a commit, sent while the buffer of the room is short of MaxObjects
SendCommit ==
    \E s \in Sockets, r \in Rooms : \E ev \in CommitEvents(s, r) :
        /\ lastEv = NoEvent
        /\ ops < MaxEdits
        /\ r \in DOMAIN rooms => Len(rooms[r].canvasState) < MaxObjects
        /\ RelayReceive(s, ev, NoDelivery)
        /\ lastEv' = Spread(ev, [from |-> s])
        /\ ops' = ops + 1
        /\ RelayFrame

SendPatch ==
    \E s \in Sockets, r \in Rooms : \E ev \in PatchEvents(r) :
        /\ lastEv = NoEvent
        /\ ops < MaxEdits
        /\ RelayReceive(s, ev, NoDelivery)
        /\ lastEv' = Spread(ev, [from |-> s])
        /\ ops' = ops + 1
        /\ RelayFrame

SendNote ==
    \E s \in Sockets, r \in Rooms : \E ev \in NoteEvents(r) :
        /\ lastEv = NoEvent
        /\ ops < MaxEdits
        /\ (ev.kind = "stickyNote:create" /\ r \in DOMAIN rooms) => rooms[r].stickyNotes = << >>
        /\ RelayReceive(s, ev, NoDelivery)
        /\ lastEv' = Spread(ev, [from |-> s])
        /\ ops' = ops + 1
        /\ RelayFrame

SendTransient ==
    \E s \in Sockets, r \in Rooms : \E ev \in TransientEvents(s, r) :
        /\ lastEv = NoEvent
        /\ RelayReceive(s, ev, NoDelivery)
        /\ lastEv' = Spread(ev, [from |-> s])
        /\ UNCHANGED ops
        /\ RelayFrame

\* the sockets take what the last handler emitted
Deliver ==
    /\ lastEv # NoEvent
    /\ lastEv' = NoEvent
    /\ inbox' = NoDelivery
    /\ UNCHANGED <<rooms, adapter, currentRoom, conn, ops>>
    /\ RelayFrame

NextRelay ==
    \/ Connect \/ JoinRoom \/ Disconnect
    \/ SendCommit \/ SendPatch \/ SendNote \/ SendTransient
    \/ Deliver

SpecRelay == InitRelay /\ [][NextRelay]_vars

----------------------------------------------------------------------------
(* JSON.  A JSON text is the sequence of its tokens, each a string: the     *)
(* punctuation, a quoted string, a decimal number, true or false.           *)
(* JSON.stringify walks a value by its shape; JSON.parse reads the tokens   *)
(* back by recursive descent.                                               *)

\* keys in the order the constructors of the scene write them
KeyOrder ==
    <<"objects", "stickyNotes", "id", "type", "points", "text", "x", "y", "x1", "y1", "x2",
      "y2", "width", "height", "color", "size", "fontSize", "tool", "zIndex", "socketId",
      "deleted">>

ArrayKeys == {"objects", "stickyNotes", "points"}
StringKeys == {"id", "type", "text", "color", "tool", "socketId"}
BooleanKeys == {"deleted"}

\* the numbers and strings a scene is made of
NumberSpace == -400 .. 400
StringSpace ==
    {KeyOrder[n] : n \in DOMAIN KeyOrder}
    \cup {"stroke", "text", "image", "pen", "erase", "select", "stickyNote", "n1", "n2",
          "s1", "s2", "hi", "yo", "ok", "Double-click to edit", "#000", "#ffd700"}
    \cup ShapeTypes \cup LineTypes

NumberToken(n) == ToString(n)
StringToken(str) == ToString(str)
NumberTokens == {NumberToken(n) : n \in NumberSpace}
StringTokens == {StringToken(str) : str \in StringSpace}

\* the number a decimal token denotes, the string a quoted token denotes
NumberOf == [tok \in NumberTokens |-> CHOOSE n \in NumberSpace : NumberToken(n) = tok]
StringOf == [tok \in StringTokens |-> CHOOSE str \in StringSpace : StringToken(str) = tok]

RECURSIVE JsonMembers(_, _)
RECURSIVE JsonElements(_, _)

\* the members of object o from key number n on, preceded by a comma after the first
JsonMembers(o, n) ==
    IF n > Len(KeyOrder) THEN << >>
    ELSE IF KeyOrder[n] \notin DOMAIN o THEN JsonMembers(o, n + 1)
    ELSE LET k == KeyOrder[n]
             first == \A m \in 1 .. (n - 1) : KeyOrder[m] \notin DOMAIN o
             value == IF k \in ArrayKeys THEN <<"[">> \o JsonElements(o[k], 1) \o <<"]">>
                      ELSE IF k \in StringKeys THEN <<StringToken(o[k])>>
                      ELSE IF k \in BooleanKeys THEN <<IF o[k] THEN "true" ELSE "false">>
                      ELSE <<NumberToken(o[k])>>
         IN (IF first THEN << >> ELSE <<",">>) \o <<StringToken(k), ":">> \o value
                \o JsonMembers(o, n + 1)

\* the elements of array a from element n on, each an object
JsonElements(a, n) ==
    IF n > Len(a) THEN << >>
    ELSE (IF n = 1 THEN << >> ELSE <<",">>)
            \o <<"{">> \o JsonMembers(a[n], 1) \o <<"}">> \o JsonElements(a, n + 1)

\* JSON.stringify(o) of an object o
JsonStringify(o) == <<"{">> \o JsonMembers(o, 1) \o <<"}">>

RECURSIVE ParseValue(_)
RECURSIVE ParseMembers(_, _)
RECURSIVE ParseElements(_, _)

\* the value the tokens start with, and the tokens after it
ParseValue(toks) ==
    LET head == Head(toks)
    IN IF head = "{" THEN
            IF toks[2] = "}" THEN [value |-> << >>, rest |-> SubSeq(toks, 3, Len(toks))]
            ELSE ParseMembers(Tail(toks), << >>)
       ELSE IF head = "[" THEN
            IF toks[2] = "]" THEN [value |-> << >>, rest |-> SubSeq(toks, 3, Len(toks))]
            ELSE ParseElements(Tail(toks), << >>)
       ELSE IF head \in {"true", "false"} THEN [value |-> head = "true", rest |-> Tail(toks)]
       ELSE IF head \in NumberTokens THEN
            [value |-> NumberOf[head], rest |-> Tail(toks)]
       ELSE [value |-> StringOf[head], rest |-> Tail(toks)]

\* key : value members up to the closing brace, added to acc
ParseMembers(toks, acc) ==
    LET key == StringOf[toks[1]]
        member == ParseValue(SubSeq(toks, 3, Len(toks)))
        obj == Spread(acc, [k \in {key} |-> member.value])
    IN IF Head(member.rest) = "," THEN ParseMembers(Tail(member.rest), obj)
       ELSE [value |-> obj, rest |-> Tail(member.rest)]

\* elements up to the closing bracket, appended to acc
ParseElements(toks, acc) ==
    LET element == ParseValue(toks)
        arr == Append(acc, element.value)
    IN IF Head(element.rest) = "," THEN ParseElements(Tail(element.rest), arr)
       ELSE [value |-> arr, rest |-> Tail(element.rest)]

\* JSON.parse(text)
JsonParse(text) == ParseValue(text).value

----------------------------------------------------------------------------
(* The client: geometry.  Coordinates are integers; a JavaScript division   *)
(* is the integer quotient, a comparison of quotients is cross-multiplied.  *)

Abs(n) == IF n < 0 THEN -n ELSE n
MinOf(S) == CHOOSE n \in S : \A m \in S : n <= m
MaxOf(S) == CHOOSE n \in S : \A m \in S : n >= m
Sq(n) == n * n

\* a canvasToScreen that scales the translation too
CanvasToScreenScaled(canvasX, canvasY) ==
    Pt(FMul(FAdd(canvasX, viewportTransform.translateX), viewportTransform.scale),
       FMul(FAdd(canvasY, viewportTransform.translateY), viewportTransform.scale))

\* canvasToScreen
CanvasToScreen(canvasX, canvasY) ==
    Pt(FAdd(FMul(canvasX, viewportTransform.scale), viewportTransform.translateX),
       FAdd(FMul(canvasY, viewportTransform.scale), viewportTransform.translateY))

\* screenToCanvas
ScreenToCanvas(screenX, screenY) ==
    Pt(FDiv(FSub(screenX, viewportTransform.translateX), viewportTransform.scale),
       FDiv(FSub(screenY, viewportTransform.translateY), viewportTransform.scale))

\* the pixel (offsetX, offsetY) lies on a scene point with whole coordinates
OnGrid(offsetX, offsetY) ==
    LET p == ScreenToCanvas(Whole(offsetX), Whole(offsetY))
    IN p.x.den = 1 /\ p.y.den = 1

\* screenToCanvas of a pixel that lies on the grid
CanvasPoint(offsetX, offsetY) ==
    LET p == ScreenToCanvas(Whole(offsetX), Whole(offsetY))
    IN Pt(p.x.num, p.y.num)

\* getStrokeBounds
GetStrokeBounds(points) ==
    IF Len(points) = 0
    THEN [minX |-> 0, minY |-> 0, maxX |-> 0, maxY |-> 0, width |-> 0, height |-> 0]
    ELSE LET xs == {points[n].x : n \in DOMAIN points}
             ys == {points[n].y : n \in DOMAIN points}
         IN [minX |-> MinOf(xs), maxX |-> MaxOf(xs), minY |-> MinOf(ys), maxY |-> MaxOf(ys),
             width |-> MaxOf(xs) - MinOf(xs), height |-> MaxOf(ys) - MinOf(ys)]

\* obj.fontSize || 20
FontSizeOf(obj) == IF "fontSize" \in DOMAIN obj /\ obj.fontSize # 0 THEN obj.fontSize ELSE 20

\* ctx.measureText(text).width at `${fontSize}px Arial`: half an em per character
MeasureText(text, fontSize) == (Len(text) * fontSize) \div 2

\* fontSize * 1.2
TextHeight(fontSize) == (fontSize * 6) \div 5

\* getObjectBounds: NullRec for a variant it does not know
GetObjectBounds(obj) ==
    LET padding == 5
    IN IF TypeOf(obj) = "stroke" THEN
            LET bounds == GetStrokeBounds(obj.points)
            IN [x |-> bounds.minX - padding, y |-> bounds.minY - padding,
                width |-> bounds.width + padding * 2, height |-> bounds.height + padding * 2]
       ELSE IF TypeOf(obj) = "text" THEN
            LET textWidth == MeasureText(obj.text, FontSizeOf(obj))
                textHeight == TextHeight(FontSizeOf(obj))
            IN [x |-> obj.x - padding, y |-> obj.y - textHeight,
                width |-> textWidth + padding * 2, height |-> textHeight + padding]
       ELSE IF TypeOf(obj) \in ShapeTypes THEN
            LET x == IF obj.width >= 0 THEN obj.x ELSE obj.x + obj.width
                y == IF obj.height >= 0 THEN obj.y ELSE obj.y + obj.height
            IN [x |-> x - padding, y |-> y - padding,
                width |-> Abs(obj.width) + padding * 2, height |-> Abs(obj.height) + padding * 2]
       ELSE IF TypeOf(obj) \in LineTypes THEN
            LET minX == MinOf({obj.x1, obj.x2})
                minY == MinOf({obj.y1, obj.y2})
                maxX == MaxOf({obj.x1, obj.x2})
                maxY == MaxOf({obj.y1, obj.y2})
            IN [x |-> minX - padding, y |-> minY - padding,
                width |-> (maxX - minX) + padding * 2, height |-> (maxY - minY) + padding * 2]
       ELSE NullRec

\* the order Object.entries walks the handles in
HandleOrder == <<"nw", "n", "ne", "e", "se", "s", "sw", "w">>

\* getResizeHandles: the position of handle h on the bounds
HandlePos(bounds, h) ==
    LET left == bounds.x
        midX == bounds.x + bounds.width \div 2
        right == bounds.x + bounds.width
        top == bounds.y
        midY == bounds.y + bounds.height \div 2
        bottom == bounds.y + bounds.height
    IN CASE h = "nw" -> Pt(left, top)
         [] h = "n" -> Pt(midX, top)
         [] h = "ne" -> Pt(right, top)
         [] h = "e" -> Pt(right, midY)
         [] h = "se" -> Pt(right, bottom)
         [] h = "s" -> Pt(midX, bottom)
         [] h = "sw" -> Pt(left, bottom)
         [] h = "w" -> Pt(left, midY)

\* getResizeHandleAtPoint / isPointInResizeHandle (isTouch is never passed):
\* the first handle within the threshold, or Null.  isTouching is the state
\* of the render the calling handler belongs to
IsPointInResizeHandle(x, y, obj) ==
    LET bounds == GetObjectBounds(obj)
        threshold == IF isTouching THEN 20 ELSE 10
        near(n) == /\ Abs(x - HandlePos(bounds, HandleOrder[n]).x) <= threshold
                   /\ Abs(y - HandlePos(bounds, HandleOrder[n]).y) <= threshold
    IN IF bounds = NullRec \/ ~\E n \in DOMAIN HandleOrder : near(n) THEN Null
       ELSE HandleOrder[MinOf({n \in DOMAIN HandleOrder : near(n)})]

\* isPointInStroke: some point closer than the threshold, 20 when the
\* render the calling handler belongs to has isTouching set and 10 otherwise
IsPointInStroke(x, y, points) ==
    LET touchThreshold == IF isTouching THEN 20 ELSE 10
    IN \E n \in DOMAIN points :
            Sq(points[n].x - x) + Sq(points[n].y - y) < Sq(touchThreshold)

\* isPointInText
IsPointInText(x, y, textObj) ==
    LET textWidth == MeasureText(textObj.text, FontSizeOf(textObj))
        textHeight == TextHeight(FontSizeOf(textObj))
        padding == 5
    IN /\ x >= textObj.x - padding /\ x <= textObj.x + textWidth + padding
       /\ y >= textObj.y - textHeight /\ y <= textObj.y + padding

\* isPointInShape: near the border (obj.fill is never set)
IsPointInShape(x, y, obj) ==
    LET shapeX == IF obj.width >= 0 THEN obj.x ELSE obj.x + obj.width
        shapeY == IF obj.height >= 0 THEN obj.y ELSE obj.y + obj.height
        width == Abs(obj.width)
        height == Abs(obj.height)
        threshold == 10
        inY == y >= shapeY - threshold /\ y <= shapeY + height + threshold
        inX == x >= shapeX - threshold /\ x <= shapeX + width + threshold
        nearLeft == Abs(x - shapeX) < threshold /\ inY
        nearRight == Abs(x - (shapeX + width)) < threshold /\ inY
        nearTop == Abs(y - shapeY) < threshold /\ inX
        nearBottom == Abs(y - (shapeY + height)) < threshold /\ inX
        \* (x - centerX) / a = u / width, (y - centerY) / b = v / height
        u == 2 * (x - shapeX) - width
        v == 2 * (y - shapeY) - height
    IN IF obj.type = "ellipse"
       THEN /\ width # 0 /\ height # 0
            \* |distance - 1| < 0.3, both sides times 10 * width^2 * height^2
            /\ Abs(Sq(u) * Sq(height) + Sq(v) * Sq(width) - Sq(width) * Sq(height))
                    <= (3 * Sq(width) * Sq(height) - 1) \div 10
       ELSE nearLeft \/ nearRight \/ nearTop \/ nearBottom

\* isPointInLine: closer than 10 to the segment
IsPointInLine(x, y, obj) ==
    LET dx == obj.x2 - obj.x1
        dy == obj.y2 - obj.y1
        len2 == Sq(dx) + Sq(dy)
        dot == (x - obj.x1) * dx + (y - obj.y1) * dy
        d1 == Sq(x - obj.x1) + Sq(y - obj.y1)
        d2 == Sq(x - obj.x2) + Sq(y - obj.y2)
    IN IF len2 = 0 THEN d1 < 100
       ELSE IF dot <= 0 THEN d1 < 100
       ELSE IF dot >= len2 THEN d2 < 100
       ELSE d1 * len2 - Sq(dot) < 100 * len2

\* the hit test of one object, by variant
IsPointInObject(x, y, obj) ==
    \/ TypeOf(obj) = "stroke" /\ IsPointInStroke(x, y, obj.points)
    \/ TypeOf(obj) = "text" /\ IsPointInText(x, y, obj)
    \/ TypeOf(obj) \in ShapeTypes /\ IsPointInShape(x, y, obj)
    \/ TypeOf(obj) \in LineTypes /\ IsPointInLine(x, y, obj)

\* a hit test that does not skip the tombstones
ClickedIndexAny(x, y, objs) ==
    LET hits == {i \in 0 .. (Len(objs) - 1) : IsPointInObject(x, y, At(objs, i))}
    IN IF hits = {} THEN -1 ELSE MaxOf(hits)

\* startDrawing: the topmost live object under the point, or -1
ClickedIndex(x, y, objs) ==
    LET hits == {i \in 0 .. (Len(objs) - 1) :
                    ~IsDeleted(At(objs, i)) /\ IsPointInObject(x, y, At(objs, i))}
    IN IF hits = {} THEN -1 ELSE MaxOf(hits)

----------------------------------------------------------------------------
(* The client: local handlers.  A handler is a function from the state the  *)
(* render it runs in closed over (a record with one field per variable) to  *)
(* the state after its updates; touched records that it called setObjects   *)
(* or setStickyNotes, emitted what it sent with socket.emit.                *)

Tools == {"select", "pen", "rectangle", "text"}
ShapeTools == {"rectangle", "ellipse", "triangle", "line", "arrow"}
Image == "png"
\* socket.id of this client
SocketId == "s1"

\* the state a handler starts from
Client ==
    [objects |-> objects, stickyNotes |-> stickyNotes, remoteStrokes |-> remoteStrokes,
     tool |-> tool, pointer |-> pointer, viewportTransform |-> viewportTransform,
     panStart |-> panStart, crashed |-> crashed, selectedObject |-> selectedObject,
     isDragging |-> isDragging, dragOffset |-> dragOffset, isResizing |-> isResizing,
     resizeHandle |-> resizeHandle, resizeStartData |-> resizeStartData,
     isDrawing |-> isDrawing, currentStroke |-> currentStroke,
     isDrawingShape |-> isDrawingShape, shapeStart |-> shapeStart, liveShape |-> liveShape,
     isPanning |-> isPanning, textInput |-> textInput, undoStack |-> undoStack,
     redoStack |-> redoStack, touches |-> touches, touchMode |-> touchMode,
     isTouching |-> isTouching, lastTouchDistance |-> lastTouchDistance,
     lastTouchCenter |-> lastTouchCenter, cursorThrottle |-> cursorThrottle,
     presenceThrottle |-> presenceThrottle, presenceSent |-> << >>,
     selectedStickyNote |-> selectedStickyNote, draggingStickyNote |-> draggingStickyNote,
     stickyNoteDragOffset |-> stickyNoteDragOffset,
     resizingStickyNote |-> resizingStickyNote,
     stickyNoteResizeHandle |-> stickyNoteResizeHandle,
     stickyNoteResizeStart |-> stickyNoteResizeStart, listenerNotes |-> listenerNotes,
     emitted |-> << >>, touched |-> FALSE]

\* the state c becomes the state of the next render
SetClient(c) ==
    /\ objects' = c.objects /\ stickyNotes' = c.stickyNotes
    /\ remoteStrokes' = c.remoteStrokes /\ tool' = c.tool /\ pointer' = c.pointer
    /\ viewportTransform' = c.viewportTransform /\ panStart' = c.panStart
    /\ crashed' = c.crashed /\ selectedObject' = c.selectedObject
    /\ isDragging' = c.isDragging /\ dragOffset' = c.dragOffset
    /\ isResizing' = c.isResizing /\ resizeHandle' = c.resizeHandle
    /\ resizeStartData' = c.resizeStartData /\ isDrawing' = c.isDrawing
    /\ currentStroke' = c.currentStroke /\ isDrawingShape' = c.isDrawingShape
    /\ shapeStart' = c.shapeStart /\ liveShape' = c.liveShape /\ isPanning' = c.isPanning
    /\ textInput' = c.textInput /\ undoStack' = c.undoStack /\ redoStack' = c.redoStack
    /\ touches' = c.touches /\ touchMode' = c.touchMode /\ isTouching' = c.isTouching
    /\ lastTouchDistance' = c.lastTouchDistance /\ lastTouchCenter' = c.lastTouchCenter
    /\ cursorThrottle' = c.cursorThrottle /\ presenceThrottle' = c.presenceThrottle
    /\ presenceSent' = c.presenceSent
    /\ selectedStickyNote' = c.selectedStickyNote
    /\ draggingStickyNote' = c.draggingStickyNote
    /\ stickyNoteDragOffset' = c.stickyNoteDragOffset
    /\ resizingStickyNote' = c.resizingStickyNote
    /\ stickyNoteResizeHandle' = c.stickyNoteResizeHandle
    /\ stickyNoteResizeStart' = c.stickyNoteResizeStart
    /\ listenerNotes' = c.listenerNotes
    /\ emitted' = c.emitted

\* saveState: push the canvas image, clear the redo stack
SaveState(c) == [c EXCEPT !.undoStack = Append(@, Image), !.redoStack = << >>]

\* setObjects(...)
SetObjects(c, objs) == [c EXCEPT !.objects = objs, !.touched = TRUE]

\* socket.emit(kind, { roomId, ...payload })
Emit(c, ev) == [c EXCEPT !.emitted = Append(@, ev)]

\* JSON.parse(JSON.stringify(obj))
DeepCopy(obj) == JsonParse(JsonStringify(obj))

\* startDrawing with the select tool
StartSelect(c, offsetX, offsetY, canvasX, canvasY) ==
    LET sel == c.selectedObject
        live == sel # NoIndex /\ HasIndex(c.objects, sel) /\ ~IsDeleted(At(c.objects, sel))
        handle == IF live THEN IsPointInResizeHandle(canvasX, canvasY, At(c.objects, sel))
                  ELSE Null
        clickedIndex == ClickedIndex(canvasX, canvasY, c.objects)
    IN IF handle # Null THEN
            [c EXCEPT !.isResizing = TRUE,
                      !.resizeHandle = handle,
                      !.resizeStartData =
                          [x |-> canvasX, y |-> canvasY,
                           startX |-> offsetX, startY |-> offsetY,
                           bounds |-> GetObjectBounds(At(c.objects, sel)),
                           objectIndex |-> sel,
                           originalObject |-> DeepCopy(At(c.objects, sel))]]
       ELSE IF clickedIndex # -1 THEN
            [c EXCEPT !.selectedObject = clickedIndex,
                      !.isDragging = TRUE,
                      !.dragOffset = Pt(canvasX, canvasY)]
       ELSE [c EXCEPT !.selectedObject = NoIndex]

\* startDrawing (onMouseDown, left button)
StartDrawing(c, offsetX, offsetY) ==
    LET p == CanvasPoint(offsetX, offsetY)
    IN IF c.tool = "pan" THEN
            [c EXCEPT !.isPanning = TRUE, !.panStart = Pt(offsetX, offsetY)]
       ELSE IF c.tool = "select" THEN StartSelect(c, offsetX, offsetY, p.x, p.y)
       ELSE IF c.tool \in ShapeTools THEN
            [c EXCEPT !.isDrawingShape = TRUE,
                      !.shapeStart = p,
                      !.liveShape = IF c.tool \in LineTypes
                                    THEN NewLine(c.tool, p.x, p.y, p.x, p.y)
                                    ELSE NewShape(c.tool, p.x, p.y, 0, 0)]
       ELSE Emit([c EXCEPT !.isDrawing = TRUE, !.currentStroke = <<p>>],
                 [kind |-> "draw", socketId |-> SocketId, x |-> p.x, y |-> p.y,
                  color |-> Black, size |-> 4, tool |-> c.tool, isStart |-> TRUE])

HasN(h) == h \in {"nw", "n", "ne"}
HasS(h) == h \in {"sw", "s", "se"}
HasW(h) == h \in {"nw", "w", "sw"}
HasE(h) == h \in {"ne", "e", "se"}

Clamp(lo, hi, n) == IF n < lo THEN lo ELSE IF n > hi THEN hi ELSE n

\* draw, resizing a text: the font size scaled by the larger of the two
\* factors (bounds.width +- deltaX) / bounds.width, (bounds.height +- deltaY) / bounds.height
ResizedFontSize(rsd, handle, deltaX, deltaY) ==
    LET bounds == rsd.bounds
        numX == IF HasW(handle) THEN bounds.width - deltaX
                ELSE IF HasE(handle) THEN bounds.width + deltaX ELSE bounds.width
        numY == IF HasN(handle) THEN bounds.height - deltaY
                ELSE IF HasS(handle) THEN bounds.height + deltaY ELSE bounds.height
        byX == numX * bounds.height >= numY * bounds.width
        originalFontSize == FontSizeOf(rsd.originalObject)
    IN Clamp(8, 200, IF byX THEN (originalFontSize * numX) \div bounds.width
                     ELSE (originalFontSize * numY) \div bounds.height)

\* Math.max(0.1, Math.min(10, num / den)) as a fraction, den > 0
ClampScale(num, den) ==
    IF 10 * num < den THEN <<1, 10>> ELSE IF num > 10 * den THEN <<10, 1>> ELSE <<num, den>>

\* draw, resizing a stroke: the original points scaled about the anchor
ResizedPoints(rsd, handle, deltaX, deltaY) ==
    LET originalPoints == rsd.originalObject.points
        ob == GetStrokeBounds(originalPoints)
        denX == MaxOf({ob.width, 1})
        denY == MaxOf({ob.height, 1})
        anchorY == IF HasN(handle) THEN ob.maxY
                   ELSE IF HasS(handle) THEN ob.minY ELSE ob.minY + ob.height \div 2
        anchorX == IF HasW(handle) THEN ob.maxX
                   ELSE IF HasE(handle) THEN ob.minX ELSE ob.minX + ob.width \div 2
        scaleY == IF HasN(handle) THEN ClampScale(ob.height - deltaY, denY)
                  ELSE IF HasS(handle) THEN ClampScale(ob.height + deltaY, denY)
                  ELSE <<1, 1>>
        scaleX == IF HasW(handle) THEN ClampScale(ob.width - deltaX, denX)
                  ELSE IF HasE(handle) THEN ClampScale(ob.width + deltaX, denX)
                  ELSE <<1, 1>>
    IN [n \in DOMAIN originalPoints |->
            Pt(anchorX + ((originalPoints[n].x - anchorX) * scaleX[1]) \div scaleX[2],
               anchorY + ((originalPoints[n].y - anchorY) * scaleY[1]) \div scaleY[2])]

\* a resize that leaves the origin where it is whatever the handle
ResizedShapeKeepsOrigin(rsd, handle, deltaX, deltaY) ==
    LET o == rsd.originalObject
    IN [x |-> o.x,
        y |-> o.y,
        width |-> IF HasW(handle) THEN o.width - deltaX
                  ELSE IF HasE(handle) THEN o.width + deltaX ELSE o.width,
        height |-> IF HasN(handle) THEN o.height - deltaY
                   ELSE IF HasS(handle) THEN o.height + deltaY ELSE o.height]

\* draw, resizing a rectangle, ellipse or triangle
ResizedShape(rsd, handle, deltaX, deltaY) ==
    LET o == rsd.originalObject
    IN [x |-> IF HasW(handle) THEN o.x + deltaX ELSE o.x,
        y |-> IF HasN(handle) THEN o.y + deltaY ELSE o.y,
        width |-> IF HasW(handle) THEN o.width - deltaX
                  ELSE IF HasE(handle) THEN o.width + deltaX ELSE o.width,
        height |-> IF HasN(handle) THEN o.height - deltaY
                   ELSE IF HasS(handle) THEN o.height + deltaY ELSE o.height]

\* draw, resizing a line or arrow: the endpoint on the side of the handle moves
ResizedLine(rsd, handle, deltaX, deltaY) ==
    LET o == rsd.originalObject
        firstIsLeft == o.x1 <= o.x2
        firstIsTop == o.y1 <= o.y2
    IN [x1 |-> IF (HasW(handle) /\ firstIsLeft) \/ (HasE(handle) /\ ~(o.x2 >= o.x1))
               THEN o.x1 + deltaX ELSE o.x1,
        x2 |-> IF (HasW(handle) /\ ~firstIsLeft) \/ (HasE(handle) /\ o.x2 >= o.x1)
               THEN o.x2 + deltaX ELSE o.x2,
        y1 |-> IF (HasN(handle) /\ firstIsTop) \/ (HasS(handle) /\ ~(o.y2 >= o.y1))
               THEN o.y1 + deltaY ELSE o.y1,
        y2 |-> IF (HasN(handle) /\ ~firstIsTop) \/ (HasS(handle) /\ o.y2 >= o.y1)
               THEN o.y2 + deltaY ELSE o.y2]

\* the stored original has the fields the resize of an object of variant t reads
OriginalFits(rsd, t) ==
    LET o == rsd.originalObject
    IN CASE t = "stroke" -> "points" \in DOMAIN o
         [] t \in ShapeTypes -> {"x", "y", "width", "height"} \subseteq DOMAIN o
         [] t \in LineTypes -> {"x1", "y1", "x2", "y2"} \subseteq DOMAIN o
         [] OTHER -> TRUE

\* a resize that starts each move from the object as the last move left it
DrawResizeCompounding(c, canvasX, canvasY) ==
    LET index == c.resizeStartData.objectIndex
        obj == At(c.objects, index)
        rsd == [c.resizeStartData EXCEPT !.originalObject = obj]
        deltaX == canvasX - rsd.x
        deltaY == canvasY - rsd.y
        t == TypeOf(obj)
        fields == IF t = "text" THEN
                      [fontSize |-> ResizedFontSize(rsd, c.resizeHandle, deltaX, deltaY)]
                  ELSE IF t = "stroke" THEN
                      [points |-> ResizedPoints(rsd, c.resizeHandle, deltaX, deltaY)]
                  ELSE IF t \in ShapeTypes THEN
                      ResizedShape(rsd, c.resizeHandle, deltaX, deltaY)
                  ELSE ResizedLine(rsd, c.resizeHandle, deltaX, deltaY)
    IN IF ~HasIndex(c.objects, index) THEN c
       ELSE IF t \notin KnownTypes THEN c
       ELSE SetObjects(c, SetAt(c.objects, index, Spread(obj, fields)))

\* draw while resizing: the fields the object at the stored index gets
DrawResize(c, canvasX, canvasY) ==
    LET rsd == c.resizeStartData
        index == rsd.objectIndex
        deltaX == canvasX - rsd.x
        deltaY == canvasY - rsd.y
        obj == At(c.objects, index)
        t == TypeOf(obj)
        fields == IF t = "text" THEN
                      [fontSize |-> ResizedFontSize(rsd, c.resizeHandle, deltaX, deltaY)]
                  ELSE IF t = "stroke" THEN
                      [points |-> ResizedPoints(rsd, c.resizeHandle, deltaX, deltaY)]
                  ELSE IF t \in ShapeTypes THEN
                      ResizedShape(rsd, c.resizeHandle, deltaX, deltaY)
                  ELSE ResizedLine(rsd, c.resizeHandle, deltaX, deltaY)
    IN IF ~HasIndex(c.objects, index) THEN c
       ELSE IF t \notin KnownTypes THEN c
       ELSE IF t = "stroke" /\ ~OriginalFits(rsd, t) THEN c
       ELSE SetObjects(c, SetAt(c.objects, index, Spread(obj, fields)))

\* draw while dragging: the updater reads updated[selectedObject].type
DrawDrag(c, canvasX, canvasY) ==
    LET deltaX == canvasX - c.dragOffset.x
        deltaY == canvasY - c.dragOffset.y
        index == c.selectedObject
    IN IF ~HasIndex(c.objects, index)
       THEN \* TypeError inside the updater: the render fails and React unmounts the tree
            Emit([c EXCEPT !.crashed = TRUE],
                 [kind |-> "move", index |-> index, deltaX |-> deltaX, deltaY |-> deltaY])
       ELSE Emit([SetObjects(c, SetAt(c.objects, index,
                                      MoveObject(At(c.objects, index), deltaX, deltaY)))
                    EXCEPT !.dragOffset = Pt(canvasX, canvasY)],
                 [kind |-> "move", index |-> index, deltaX |-> deltaX, deltaY |-> deltaY])

\* draw while a shape is being drawn
DrawShape(c, canvasX, canvasY) ==
    LET width == canvasX - c.shapeStart.x
        height == canvasY - c.shapeStart.y
    IN IF c.liveShape.type \in LineTypes
       THEN [c EXCEPT !.liveShape = Spread(@, [x2 |-> canvasX, y2 |-> canvasY])]
       ELSE [c EXCEPT !.liveShape =
                Spread(@, [x |-> IF width >= 0 THEN c.shapeStart.x ELSE canvasX,
                           y |-> IF height >= 0 THEN c.shapeStart.y ELSE canvasY,
                           width |-> Abs(width), height |-> Abs(height)])]

\* a draw that puts the new point in front of the stroke
\* draw: if no cursor timer is pending, start one that closes over the
\* position of this move
ThrottleCursor(c, p) == IF c.cursorThrottle = NullRec THEN [c EXCEPT !.cursorThrottle = p] ELSE c

\* channelRef.current.send({ type: 'broadcast', event: 'cursor', payload })
PresenceSend(c, x, y) == [c EXCEPT !.presenceSent = Append(@, Pt(x, y))]

\* updateCursor of usePresence; ready: the channel is subscribed and the
\* user is signed in
UpdateCursor(c, x, y, ready) ==
    IF ~ready THEN c
    ELSE IF c.presenceThrottle THEN c
    ELSE PresenceSend([c EXCEPT !.presenceThrottle = TRUE], x, y)

\* leaveCursor of usePresence
LeaveCursor(c, ready) == IF ~ready THEN c ELSE PresenceSend(c, -1000, -1000)

\* the callback of the canvas' cursor timer
CursorTimeout(c, ready) ==
    [UpdateCursor(c, c.cursorThrottle.x, c.cursorThrottle.y, ready)
        EXCEPT !.cursorThrottle = NullRec]

\* the callback of the timer of usePresence
PresenceTimeout(c) == [c EXCEPT !.presenceThrottle = FALSE]

\* 50 ms pass after a handler without another event: the pending cursor
\* timer runs, and then the timer of usePresence
Rest(c) ==
    IF c.cursorThrottle # NullRec THEN PresenceTimeout(CursorTimeout(c, TRUE))
    ELSE PresenceTimeout(c)

DrawPrepends(c, offsetX, offsetY) ==
    LET p == CanvasPoint(offsetX, offsetY)
        t == ThrottleCursor(c, p)
    IN IF c.isPanning THEN
            [c EXCEPT !.viewportTransform =
                        [@ EXCEPT !.translateX = FAdd(@, Whole(offsetX - c.panStart.x)),
                                  !.translateY = FAdd(@, Whole(offsetY - c.panStart.y))],
                      !.panStart = Pt(offsetX, offsetY)]
       ELSE IF c.isDrawingShape /\ c.shapeStart # NullRec THEN DrawShape(t, p.x, p.y)
       ELSE IF c.tool = "select" /\ c.isResizing /\ c.resizeStartData # NullRec
            THEN DrawResize(t, p.x, p.y)
       ELSE IF c.tool = "select" /\ c.isDragging /\ c.selectedObject # NoIndex
            THEN DrawDrag(t, p.x, p.y)
       ELSE IF ~c.isDrawing THEN t
       ELSE Emit([t EXCEPT !.currentStroke = <<p>> \o @],
                 [kind |-> "draw", socketId |-> SocketId, x |-> p.x, y |-> p.y,
                  color |-> Black, size |-> 4, tool |-> c.tool, isStart |-> FALSE])

\* draw (onMouseMove); the hover cursor style is not part of the model
Draw(c, offsetX, offsetY) ==
    LET p == CanvasPoint(offsetX, offsetY)
        t == ThrottleCursor(c, p)
    IN IF c.isPanning THEN
            [c EXCEPT !.viewportTransform =
                        [@ EXCEPT !.translateX = FAdd(@, Whole(offsetX - c.panStart.x)),
                                  !.translateY = FAdd(@, Whole(offsetY - c.panStart.y))],
                      !.panStart = Pt(offsetX, offsetY)]
       ELSE IF c.isDrawingShape /\ c.shapeStart # NullRec THEN DrawShape(t, p.x, p.y)
       ELSE IF c.tool = "select" /\ c.isResizing /\ c.resizeStartData # NullRec
            THEN DrawResize(t, p.x, p.y)
       ELSE IF c.tool = "select" /\ c.isDragging /\ c.selectedObject # NoIndex
            THEN DrawDrag(t, p.x, p.y)
       ELSE IF ~c.isDrawing THEN t
       ELSE Emit([t EXCEPT !.currentStroke = Append(@, p)],
                 [kind |-> "draw", socketId |-> SocketId, x |-> p.x, y |-> p.y,
                  color |-> Black, size |-> 4, tool |-> c.tool, isStart |-> FALSE])

\* draw computes with numbers only: resizing a shape or a line from a stored
\* original of another variant would read undefined fields
DrawInDomain(c) ==
    (c.tool = "select" /\ c.isResizing /\ c.resizeStartData # NullRec
        /\ ~c.isPanning /\ ~(c.isDrawingShape /\ c.shapeStart # NullRec)
        /\ HasIndex(c.objects, c.resizeStartData.objectIndex))
    => LET t == TypeOf(At(c.objects, c.resizeStartData.objectIndex))
       IN t \in ShapeTypes \cup LineTypes => OriginalFits(c.resizeStartData, t)

\* a stopDrawing that takes a shape of exactly 5 units
StopShapeFromFive(c) ==
    LET s == c.liveShape
        hasSize == IF s.type \in LineTypes
                   THEN Abs(s.x2 - s.x1) >= 5 \/ Abs(s.y2 - s.y1) >= 5
                   ELSE Abs(s.width) >= 5 \/ Abs(s.height) >= 5
        done == [c EXCEPT !.isDrawingShape = FALSE, !.shapeStart = NullRec,
                          !.liveShape = NullRec]
    IN IF hasSize
       THEN SaveState(Emit(SetObjects(done, Append(c.objects, s)),
                           [kind |-> "shape", data |-> s]))
       ELSE done

\* stopDrawing, a shape being drawn: commit it if it has a meaningful size
StopShape(c) ==
    LET s == c.liveShape
        hasSize == IF s.type \in LineTypes
                   THEN Abs(s.x2 - s.x1) > 5 \/ Abs(s.y2 - s.y1) > 5
                   ELSE Abs(s.width) > 5 \/ Abs(s.height) > 5
        done == [c EXCEPT !.isDrawingShape = FALSE, !.shapeStart = NullRec,
                          !.liveShape = NullRec]
    IN IF hasSize
       THEN SaveState(Emit(SetObjects(done, Append(c.objects, s)),
                           [kind |-> "shape", data |-> s]))
       ELSE done

\* stopDrawing, select tool, resizing: emit the final geometry
StopResize(c) ==
    LET rsd == c.resizeStartData
        has == rsd # NullRec /\ HasIndex(c.objects, rsd.objectIndex)
        obj == At(c.objects, rsd.objectIndex)
        t == TypeOf(obj)
        patch == IF t = "text" THEN [kind |-> "resize", fontSize |-> obj.fontSize]
                 ELSE IF t = "stroke" THEN [kind |-> "resizeStroke", points |-> obj.points]
                 ELSE IF t \in ShapeTypes THEN
                     [kind |-> "resizeShape", x |-> obj.x, y |-> obj.y,
                      width |-> obj.width, height |-> obj.height]
                 ELSE [kind |-> "resizeLine", x1 |-> obj.x1, y1 |-> obj.y1,
                       x2 |-> obj.x2, y2 |-> obj.y2]
        done == [c EXCEPT !.isResizing = FALSE, !.resizeHandle = Null,
                          !.resizeStartData = NullRec]
    IN SaveState(IF has /\ t \in KnownTypes
                 THEN Emit(done, Spread(patch, [index |-> rsd.objectIndex]))
                 ELSE done)

\* stopDrawing (onMouseUp)
StopDrawing(c) ==
    IF c.isPanning THEN [c EXCEPT !.isPanning = FALSE]
    ELSE IF c.isDrawingShape /\ c.liveShape # NullRec THEN StopShape(c)
    ELSE IF c.tool = "select" THEN
        IF c.isResizing THEN StopResize(c)
        ELSE LET released == [c EXCEPT !.isDragging = FALSE]
             IN IF c.selectedObject # NoIndex THEN SaveState(released) ELSE released
    ELSE IF c.tool \in ShapeTools THEN c
    ELSE LET up == [c EXCEPT !.isDrawing = FALSE, !.currentStroke = << >>]
             newStroke == NewStroke(c.currentStroke, c.tool)
         IN SaveState(IF Len(c.currentStroke) > 0
                      THEN Emit(SetObjects(up, Append(c.objects, newStroke)),
                                [kind |-> "stroke",
                                 data |-> Spread([socketId |-> SocketId], newStroke)])
                      ELSE up)

\* handleCanvasClick (onClick); id is the fresh id of a new sticky note
HandleCanvasClick(c, screenX, screenY, id) ==
    LET p == CanvasPoint(screenX, screenY)
        newNote == [id |-> id, x |-> p.x, y |-> p.y, width |-> 200, height |-> 200,
                    text |-> "Double-click to edit", color |-> "#ffd700",
                    zIndex |-> Len(c.stickyNotes)]
    IN IF c.tool = "text" THEN [c EXCEPT !.textInput = p]
       ELSE IF c.tool = "stickyNote" THEN
            Emit([c EXCEPT !.stickyNotes = Append(@, newNote), !.touched = TRUE],
                 Spread([kind |-> "stickyNote:create"], newNote))
       ELSE c

\* handleTextSubmit (onKeyDown of the text box) with inputValue typed in
HandleTextSubmit(c, key, inputValue) ==
    LET newText == NewText(inputValue, c.textInput.x, c.textInput.y)
    IN IF key = "Enter" /\ inputValue # "" THEN
            [SaveState(Emit(SetObjects(c, Append(c.objects, newText)),
                            [kind |-> "text", data |-> newText]))
                EXCEPT !.textInput = NullRec]
       ELSE IF key = "Escape" THEN [c EXCEPT !.textInput = NullRec]
       ELSE c

\* deleteSelectedObject, through the handle the component exposes
DeleteSelectedObject(c) ==
    IF c.selectedObject # NoIndex THEN
        SaveState(Emit([SetObjects(c, OnDelete(c.objects, c.selectedObject))
                            EXCEPT !.selectedObject = NoIndex],
                       [kind |-> "delete", index |-> c.selectedObject]))
    ELSE c

\* Math.sqrt of a square number
Sqrt(n) == CHOOSE r \in 0 .. n : r * r = n

\* getTouchDistance
GetTouchDistance(touch1, touch2) == Sqrt(Sq(touch1.x - touch2.x) + Sq(touch1.y - touch2.y))

\* getTouchCenter
GetTouchCenter(touch1, touch2) ==
    Pt((touch1.x + touch2.x) \div 2, (touch1.y + touch2.y) \div 2)

\* the tools handleTouchStart starts a drawing for
DrawingTools == {"pen", "erase", "rectangle", "ellipse", "triangle", "line", "arrow"}

\* handleTouchStart; ts is e.touches, pencil is isApplePencilTouch(touches[0])
HandleTouchStart(c, ts, pencil) ==
    LET on == [c EXCEPT !.touches = ts]
    IN IF Len(ts) = 2 THEN
            [on EXCEPT !.touchMode = "pinch",
                       !.lastTouchDistance = GetTouchDistance(ts[1], ts[2]),
                       !.lastTouchCenter = GetTouchCenter(ts[1], ts[2])]
       ELSE IF Len(ts) = 1 THEN
            IF pencil /\ c.tool \notin {"select", "pan"} THEN
                StartDrawing([on EXCEPT !.touchMode = "draw"], ts[1].x, ts[1].y)
            ELSE IF c.tool = "pan" THEN
                [on EXCEPT !.touchMode = "pan", !.isPanning = TRUE, !.panStart = ts[1]]
            ELSE IF c.tool \in DrawingTools THEN
                StartDrawing([on EXCEPT !.touchMode = "draw", !.isTouching = TRUE],
                             ts[1].x, ts[1].y)
            ELSE StartDrawing([on EXCEPT !.touchMode = "select", !.isTouching = TRUE],
                              ts[1].x, ts[1].y)
       ELSE on

\* handleTouchMove, two contacts: zoom about the centre of the pinch and pan
\* by the movement of the centre
PinchZoom(c, ts) ==
    LET newDistance == GetTouchDistance(ts[1], ts[2])
        center == GetTouchCenter(ts[1], ts[2])
        prev == c.viewportTransform
        scaleFactor == FDiv(Whole(newDistance), Whole(c.lastTouchDistance))
        panDeltaX == Whole(center.x - c.lastTouchCenter.x)
        panDeltaY == Whole(center.y - c.lastTouchCenter.y)
        newScale == FMax(Literal(1, 10), FMin(Whole(10), FMul(prev.scale, scaleFactor)))
        scaleRatio == FDiv(newScale, prev.scale)
    IN [c EXCEPT !.viewportTransform =
                    [scale |-> newScale,
                     translateX |->
                        FAdd(FSub(Whole(center.x),
                                  FMul(FSub(Whole(center.x), prev.translateX), scaleRatio)),
                             panDeltaX),
                     translateY |->
                        FAdd(FSub(Whole(center.y),
                                  FMul(FSub(Whole(center.y), prev.translateY), scaleRatio)),
                             panDeltaY)],
                 !.lastTouchDistance = newDistance,
                 !.lastTouchCenter = center]

\* handleTouchMove
HandleTouchMove(c, ts) ==
    LET on == [c EXCEPT !.touches = ts]
    IN IF Len(ts) = 2 /\ c.touchMode = "pinch" THEN
            IF c.lastTouchDistance \notin {NoDistance, 0} /\ c.lastTouchCenter # NullRec
            THEN PinchZoom(on, ts) ELSE on
       ELSE IF Len(ts) = 1 THEN
            IF c.touchMode = "pan" /\ c.isPanning THEN
                [on EXCEPT !.viewportTransform =
                              [@ EXCEPT !.translateX = FAdd(@, Whole(ts[1].x - c.panStart.x)),
                                        !.translateY = FAdd(@, Whole(ts[1].y - c.panStart.y))],
                           !.panStart = ts[1]]
            ELSE IF c.touchMode \in {"draw", "select"} THEN Draw(on, ts[1].x, ts[1].y)
            ELSE on
       ELSE on

\* a handleTouchEnd that ends the gesture when one of two contacts lifts
HandleTouchEndToIdle(c, ts) ==
    [StopDrawing([c EXCEPT !.touches = ts])
        EXCEPT !.isTouching = FALSE, !.touchMode = Null,
               !.lastTouchDistance = NoDistance, !.lastTouchCenter = NullRec]

\* handleTouchEnd (onTouchEnd, onTouchCancel); ts is e.touches, the contacts
\* that remain
HandleTouchEnd(c, ts) ==
    LET on == [c EXCEPT !.touches = ts]
    IN IF Len(ts) > 0 THEN
            IF c.touchMode = "pinch" /\ Len(ts) = 1 THEN
                [on EXCEPT !.touchMode = "pan", !.isPanning = TRUE, !.panStart = ts[1],
                           !.lastTouchDistance = NoDistance, !.lastTouchCenter = NullRec]
            ELSE on
       ELSE [StopDrawing(on)
                EXCEPT !.isTouching = FALSE, !.touchMode = Null,
                       !.lastTouchDistance = NoDistance, !.lastTouchCenter = NullRec]

\* a restore that rolls the scene back with the picture
RestoreStateRollsBack(c, imageData) ==
    SetObjects(c, SubSeq(c.objects, 1, Len(c.objects) - 1))

\* restoreState: the image is drawn over the canvas; the pixels of the
\* canvas are no part of the scene, the selection or the stacks
RestoreState(c, imageData) == c

\* an undo that forgets the snapshot it pops
UndoDropsSnapshot(c) ==
    IF Len(c.undoStack) <= 1 THEN c
    ELSE LET popped == SubSeq(c.undoStack, 1, Len(c.undoStack) - 1)
         IN Emit([c EXCEPT !.undoStack = popped],
                 [kind |-> "undo", imageData |-> popped[Len(popped)]])

\* undo
Undo(c) ==
    IF Len(c.undoStack) <= 1 THEN c
    ELSE LET popped == SubSeq(c.undoStack, 1, Len(c.undoStack) - 1)
             previousState == popped[Len(popped)]
         IN Emit(RestoreState([c EXCEPT !.undoStack = popped,
                                        !.redoStack = Append(@, c.undoStack[Len(c.undoStack)])],
                              previousState),
                 [kind |-> "undo", imageData |-> previousState])

\* redo
Redo(c) ==
    IF Len(c.redoStack) = 0 THEN c
    ELSE LET nextState == c.redoStack[Len(c.redoStack)]
         IN Emit(RestoreState([c EXCEPT !.redoStack = SubSeq(@, 1, Len(@) - 1),
                                        !.undoStack = Append(@, nextState)],
                              nextState),
                 [kind |-> "redo", imageData |-> nextState])

----------------------------------------------------------------------------
(* The client: inbound events besides the object patches *)

\* a socket.on("draw") that starts an entry for a peer that has none
OnDrawStartsAnyway(strokes, p) ==
    IF p.isStart \/ p.socketId \notin DOMAIN strokes THEN
        [id \in (DOMAIN strokes) \cup {p.socketId} |->
            IF id = p.socketId
            THEN [points |-> <<Pt(p.x, p.y)>>, color |-> p.color, size |-> p.size,
                  tool |-> p.tool]
            ELSE strokes[id]]
    ELSE [strokes EXCEPT ![p.socketId].points = Append(@, Pt(p.x, p.y))]

\* socket.on("draw"): the provisional stroke of a remote peer
OnDraw(strokes, p) ==
    IF p.isStart THEN
        [id \in (DOMAIN strokes) \cup {p.socketId} |->
            IF id = p.socketId
            THEN [points |-> <<Pt(p.x, p.y)>>, color |-> p.color, size |-> p.size,
                  tool |-> p.tool]
            ELSE strokes[id]]
    ELSE IF p.socketId \in DOMAIN strokes THEN
        [strokes EXCEPT ![p.socketId].points = Append(@, Pt(p.x, p.y))]
    ELSE strokes

\* delete remoteStrokes.current[socketId]
DropStroke(strokes, socketId) == [id \in (DOMAIN strokes) \ {socketId} |-> strokes[id]]

\* prev.map(note => note.id === id ? { ...note, ...fields } : note)
MapNote(prev, id, fields) ==
    [n \in DOMAIN prev |-> IF prev[n].id = id THEN Spread(prev[n], fields) ELSE prev[n]]

\* socket.on("stickyNote:*")
OnStickyNote(prev, p) ==
    CASE p.kind = "stickyNote:create" -> Append(prev, Omit(p, "kind"))
      [] p.kind = "stickyNote:update" -> MapNote(prev, p.id, [text |-> p.text])
      [] p.kind = "stickyNote:move" -> MapNote(prev, p.id, [x |-> p.x, y |-> p.y])
      [] p.kind = "stickyNote:resize" ->
            MapNote(prev, p.id, [x |-> p.x, y |-> p.y, width |-> p.width, height |-> p.height])
      [] p.kind = "stickyNote:delete" -> SelectSeq(prev, LAMBDA note : note.id # p.id)

ObjectKinds == BufferKinds \cup {"init"}

\* the handler the socket runs for the inbound event p
Receive(c, p) ==
    IF p.kind \in ObjectKinds THEN
        LET next == SetObjects(c, HandleInbound(c.objects, p))
        IN IF p.kind = "stroke" /\ "socketId" \in DOMAIN p.data
           THEN [next EXCEPT !.remoteStrokes = DropStroke(@, p.data.socketId)]
           ELSE next
    ELSE IF p.kind \in NoteKinds THEN
        [c EXCEPT !.stickyNotes = OnStickyNote(@, p), !.touched = TRUE]
    ELSE IF p.kind = "draw" THEN [c EXCEPT !.remoteStrokes = OnDraw(@, p)]
    ELSE IF p.kind \in {"undo", "redo"} THEN RestoreState(c, p.imageData)
    ELSE c

----------------------------------------------------------------------------
(* Spec: one client session.  The board page has fetched the board and      *)
(* opened the socket; the Whiteboard component mounts, loads the stored      *)
(* snapshot, and then handles the mouse, the toolbar, the inbound events of  *)
(* the relay and its autosave timer.                                         *)

\* offsetX, offsetY of the mouse events
Points == {Pt(0, 0), Pt(20, 10)}

\* scene_json as createBoard writes it
EmptySnapshot == JsonStringify([objects |-> << >>, stickyNotes |-> << >>])

\* boards.scene_json when the page opens: as createBoard wrote it, or as an
\* earlier session saved it
StoredSnapshots ==
    {EmptySnapshot,
     JsonStringify([objects |-> <<NewShape("rectangle", 0, 0, 20, 10)>>,
                    stickyNotes |-> <<Note1>>])}

\* what the relay may send to this client
InboundEvents ==
    {[kind |-> "init", initialState |-> << >>],
     [kind |-> "init", initialState |-> <<NewText("yo", 5, 5)>>],
     [kind |-> "text", data |-> NewText("yo", 5, 5)],
     [kind |-> "stroke", data |-> Spread([socketId |-> "s2"], NewStroke(<<Pt(0, 0)>>, "pen"))],
     [kind |-> "move", index |-> 0, deltaX |-> 5, deltaY |-> 0],
     [kind |-> "delete", index |-> 0],
     [kind |-> "clear"],
     [kind |-> "draw", socketId |-> "s2", x |-> 0, y |-> 0, color |-> Black, size |-> 4,
      tool |-> "pen", isStart |-> TRUE],
     [kind |-> "stickyNote:delete", id |-> "n1"]}

\* the timer triggerAutoSave sets closes over the scene of the render it ran in
SceneOf(c) == [objects |-> c.objects, stickyNotes |-> c.stickyNotes]

Init ==
    /\ ClientInit
    /\ sceneJson \in StoredSnapshots
    /\ initialScene = JsonParse(sceneJson)
    /\ initialSceneLoaded = FALSE
    /\ lastSavedScene = NoJson
    /\ autoSaveTimer = NullRec
    /\ HarnessIdle /\ RelayIdle /\ PeersIdle
    /\ lastEv = NoEvent
    /\ ops = 0

\* the effects of the first render have run
Mounted == Len(undoStack) > 0

\* a session is MaxOps tool changes, mouse presses, inbound events and saves
\* long; what a press leads to (moves, release, leave, click, text box,
\* delete, undo, redo) is not counted
\* stickyNotes.find(n => n.id === noteId), NullRec when there is none
FindNote(notes, noteId) ==
    LET hits == {n \in DOMAIN notes : notes[n].id = noteId}
    IN IF hits = {} THEN NullRec
       ELSE notes[CHOOSE n \in hits : \A k \in hits : n <= k]

\* handle.includes(letter)
Includes(handle, letter) ==
    \E n \in 1 .. Len(handle) : SubSeq(handle, n, n) = letter

\* handleStickyNoteMouseDown (not the second press of a double click) and
\* handleStickyNoteTouchStart (one contact): the pointer at (clientX, clientY)
\* goes down on the note noteId, on its resize handle `handle` or (Null) on
\* its body.  The render that follows registers the window listeners, which
\* close over the sticky notes of that render
HandleStickyNoteMouseDown(c, clientX, clientY, noteId, handle) ==
    LET note == FindNote(c.stickyNotes, noteId)
    IN IF note = NullRec THEN c
       ELSE IF handle # Null THEN
            [c EXCEPT !.selectedStickyNote = noteId,
                      !.resizingStickyNote = noteId,
                      !.stickyNoteResizeHandle = handle,
                      !.stickyNoteResizeStart =
                            [x |-> clientX, y |-> clientY, width |-> note.width,
                             height |-> note.height, noteX |-> note.x, noteY |-> note.y],
                      !.listenerNotes = c.stickyNotes]
       ELSE [c EXCEPT !.selectedStickyNote = noteId,
                      !.draggingStickyNote = noteId,
                      !.stickyNoteDragOffset = Pt(clientX - note.x, clientY - note.y),
                      !.listenerNotes = c.stickyNotes]

\* a resize that lets the west and north handles move the opposite edge
\* once the minimum clamps
ResizedNoteDrifting(start, handle, deltaX, deltaY) ==
    [x |-> IF Includes(handle, "w") THEN start.noteX + deltaX ELSE start.noteX,
     y |-> IF Includes(handle, "n") THEN start.noteY + deltaY ELSE start.noteY,
     width |-> IF Includes(handle, "w") THEN MaxOf({100, start.width - deltaX})
               ELSE IF Includes(handle, "e") THEN MaxOf({100, start.width + deltaX})
               ELSE start.width,
     height |-> IF Includes(handle, "n") THEN MaxOf({100, start.height - deltaY})
                ELSE IF Includes(handle, "s") THEN MaxOf({100, start.height + deltaY})
                ELSE start.height]

\* handleStickyNoteMouseMove and handleStickyNoteTouchMove: newX, newY,
\* newWidth, newHeight of the note being resized
ResizedNote(start, handle, deltaX, deltaY) ==
    LET widthChange == MinOf({deltaX, start.width - 100})
        heightChange == MinOf({deltaY, start.height - 100})
    IN [x |-> IF Includes(handle, "w") THEN start.noteX + widthChange ELSE start.noteX,
        y |-> IF Includes(handle, "n") THEN start.noteY + heightChange ELSE start.noteY,
        width |-> IF Includes(handle, "w") THEN MaxOf({100, start.width - deltaX})
                  ELSE IF Includes(handle, "e") THEN MaxOf({100, start.width + deltaX})
                  ELSE start.width,
        height |-> IF Includes(handle, "n") THEN MaxOf({100, start.height - deltaY})
                   ELSE IF Includes(handle, "s") THEN MaxOf({100, start.height + deltaY})
                   ELSE start.height]

\* handleStickyNoteMouseMove, and handleStickyNoteTouchMove with one contact
HandleStickyNoteMouseMove(c, clientX, clientY) ==
    IF c.resizingStickyNote # Null /\ c.stickyNoteResizeStart # NullRec THEN
        [c EXCEPT !.stickyNotes =
            MapNote(@, c.resizingStickyNote,
                    ResizedNote(c.stickyNoteResizeStart, c.stickyNoteResizeHandle,
                                clientX - c.stickyNoteResizeStart.x,
                                clientY - c.stickyNoteResizeStart.y)),
                  !.touched = TRUE]
    ELSE IF c.draggingStickyNote # Null THEN
        [c EXCEPT !.stickyNotes =
            MapNote(@, c.draggingStickyNote,
                    [x |-> clientX - c.stickyNoteDragOffset.x,
                     y |-> clientY - c.stickyNoteDragOffset.y]),
                  !.touched = TRUE]
    ELSE c

\* handleStickyNoteMouseUp, also handleStickyNoteTouchEnd: the listener's
\* closure finds the note in the sticky notes of the render it was made in
HandleStickyNoteMouseUp(c) ==
    LET id == IF c.resizingStickyNote # Null THEN c.resizingStickyNote
              ELSE c.draggingStickyNote
        note == FindNote(c.listenerNotes, id)
    IN IF c.resizingStickyNote # Null THEN
            [(IF note = NullRec THEN c
              ELSE Emit(c, [kind |-> "stickyNote:resize", id |-> note.id, x |-> note.x,
                            y |-> note.y, width |-> note.width, height |-> note.height]))
             EXCEPT !.resizingStickyNote = Null, !.stickyNoteResizeHandle = Null,
                    !.stickyNoteResizeStart = NullRec]
       ELSE IF c.draggingStickyNote # Null THEN
            [(IF note = NullRec THEN c
              ELSE Emit(c, [kind |-> "stickyNote:move", id |-> note.id, x |-> note.x,
                            y |-> note.y]))
             EXCEPT !.draggingStickyNote = Null]
       ELSE c

\* a handleWheel that leaves the scale it computes unclamped
HandleWheelUnclamped(c, mouseX, mouseY, down) ==
    LET scaleFactor == FAdd(Whole(1), FMul(Whole(IF down THEN -1 ELSE 1), Literal(1, 10)))
        prev == c.viewportTransform
        newScale == FMul(prev.scale, scaleFactor)
    IN [c EXCEPT !.viewportTransform =
            [scale |-> newScale,
             translateX |-> FSub(Whole(mouseX),
                                 FMul(FSub(Whole(mouseX), prev.translateX),
                                      FDiv(newScale, prev.scale))),
             translateY |-> FSub(Whole(mouseY),
                                 FMul(FSub(Whole(mouseY), prev.translateY),
                                      FDiv(newScale, prev.scale)))]]

\* handleWheel: one notch of the wheel at the pixel (mouseX, mouseY), deltaY
\* positive (down) or not; the zoom keeps the pixel under the mouse
HandleWheel(c, mouseX, mouseY, down) ==
    LET zoomIntensity == Literal(1, 10)
        delta == IF down THEN -1 ELSE 1
        scaleFactor == FAdd(Whole(1), FMul(Whole(delta), zoomIntensity))
        prev == c.viewportTransform
        newScale == FMax(Literal(1, 10), FMin(Whole(10), FMul(prev.scale, scaleFactor)))
    IN [c EXCEPT !.viewportTransform =
            [scale |-> newScale,
             translateX |-> FSub(Whole(mouseX),
                                 FMul(FSub(Whole(mouseX), prev.translateX),
                                      FDiv(newScale, prev.scale))),
             translateY |-> FSub(Whole(mouseY),
                                 FMul(FSub(Whole(mouseY), prev.translateY),
                                      FDiv(newScale, prev.scale)))]]

\* a Ctrl+0 that clears the scene with the viewport
ResetZoomAndScene(c) == [c EXCEPT !.viewportTransform = InitialTransform, !.objects = << >>]

\* handleKeyDown, Ctrl+0
ResetZoom(c) == [c EXCEPT !.viewportTransform = InitialTransform]

\* handleKeyDown, Ctrl+= or Ctrl++, the key held for n keydown events
RECURSIVE ZoomIn(_, _)
ZoomIn(c, n) ==
    IF n = 0 THEN c
    ELSE ZoomIn([c EXCEPT !.viewportTransform.scale = FMin(Whole(10), FMul(@, Literal(12, 10)))],
                n - 1)

\* handleKeyDown, Ctrl+-, the key held for n keydown events
RECURSIVE ZoomOut(_, _)
ZoomOut(c, n) ==
    IF n = 0 THEN c
    ELSE ZoomOut([c EXCEPT !.viewportTransform.scale =
                               FMax(Literal(1, 10), FDiv(@, Literal(12, 10)))],
                 n - 1)

Counted == ops < MaxOps /\ ops' = ops + 1

\* a timer that is left running when the scene changes again
ClientStepKeepsTimer(after, ev) ==
    /\ Mounted /\ ~crashed
    /\ \E c \in {after} :
        /\ Len(c.objects) <= MaxObjects
        /\ SetClient(c)
        /\ autoSaveTimer' = IF c.crashed THEN NullRec
                            ELSE IF autoSaveTimer # NullRec THEN autoSaveTimer
                            ELSE IF c.touched /\ initialSceneLoaded THEN SceneOf(c)
                            ELSE autoSaveTimer
    /\ lastEv' = ev
    /\ UNCHANGED <<initialScene, initialSceneLoaded, lastSavedScene, sceneJson,
                   harnessVars, relayVars, peerVars>>

\* the handler ev names has run and left the state c; the autosave effect
\* restarts the timer when the render that follows has a new scene
ClientStep(after, ev) ==
    /\ Mounted /\ ~crashed
    /\ \E c \in {after} :
        /\ Len(c.objects) <= MaxObjects
        /\ SetClient(c)
        /\ autoSaveTimer' = IF c.crashed THEN NullRec
                            ELSE IF c.touched /\ initialSceneLoaded THEN SceneOf(c)
                            ELSE autoSaveTimer
    /\ lastEv' = ev
    /\ UNCHANGED <<initialScene, initialSceneLoaded, lastSavedScene, sceneJson,
                   harnessVars, relayVars, peerVars>>

\* the effects of the first render: the autosave effect (nothing loaded
\* yet), the load of the initial scene, the first saveState; the render the
\* load schedules runs the autosave effect again
Mount ==
    /\ ~Mounted
    /\ LET load == initialScene # NullRec /\ ~initialSceneLoaded
           scene == [objects |-> initialScene.objects,
                     stickyNotes |-> initialScene.stickyNotes]
       IN /\ objects' = IF load THEN scene.objects ELSE objects
          /\ stickyNotes' = IF load THEN scene.stickyNotes ELSE stickyNotes
          /\ lastSavedScene' = IF load THEN JsonStringify(scene) ELSE lastSavedScene
          /\ initialSceneLoaded' = (load \/ initialSceneLoaded)
          /\ autoSaveTimer' = IF load THEN scene ELSE autoSaveTimer
    /\ undoStack' = <<Image>>
    /\ redoStack' = << >>
    /\ lastEv' = [kind |-> "mount"]
    /\ UNCHANGED <<remoteStrokes, tool, pointer, viewportTransform, panStart, crashed,
                   selectedObject, isDragging, dragOffset, isResizing, resizeHandle,
                   resizeStartData, isDrawing, currentStroke, isDrawingShape, shapeStart,
                   liveShape, isPanning, textInput, emitted, touchVars, cursorVars,
                   noteVars, initialScene,
                   sceneJson, harnessVars, relayVars, peerVars, ops>>

\* the toolbar of the board page sets the tool; the page renders again, so
\* onSceneChange is a new function and the autosave effect restarts the timer
SetTool(t) ==
    /\ Mounted /\ ~crashed
    /\ pointer = "up"
    /\ t # tool
    /\ Counted
    /\ tool' = t
    /\ autoSaveTimer' = IF initialSceneLoaded THEN SceneOf(Client) ELSE autoSaveTimer
    /\ emitted' = << >>
    /\ presenceSent' = << >>
    /\ lastEv' = [kind |-> "setTool"]
    /\ UNCHANGED <<objects, stickyNotes, remoteStrokes, pointer, viewportTransform, panStart,
                   crashed, selectedObject, isDragging, dragOffset, isResizing, resizeHandle,
                   resizeStartData, isDrawing, currentStroke, isDrawingShape, shapeStart,
                   liveShape, isPanning, textInput, undoStack, redoStack, touchVars,
                   cursorThrottle, presenceThrottle, noteVars,
                   initialScene, initialSceneLoaded, lastSavedScene, sceneJson, harnessVars,
                   relayVars, peerVars>>

MouseDown(p) ==
    /\ pointer = "up"
    /\ OnGrid(p.x, p.y)
    /\ Counted
    /\ ClientStep([StartDrawing(Client, p.x, p.y) EXCEPT !.pointer = "down"],
                  [kind |-> "mouseDown", x |-> p.x, y |-> p.y])

InProgress(c) ==
    c.isDrawing \/ c.isDrawingShape \/ c.isDragging \/ c.isResizing \/ c.isPanning

\* the mouse moves over the canvas, the button held, or released outside the
\* canvas with an interaction still in progress, and then rests for 50 ms
\* (a move with the button up and nothing in progress sets the cursor style
\* and broadcasts the cursor)
MouseMove(p) ==
    /\ pointer = "down" \/ (pointer = "up" /\ InProgress(Client))
    /\ Len(currentStroke) < MaxStroke
    /\ UNCHANGED ops
    /\ OnGrid(p.x, p.y)
    /\ DrawInDomain(Client)
    /\ ClientStep(Rest(Draw(Client, p.x, p.y)),
                  [kind |-> "mouseMove", x |-> p.x, y |-> p.y])

\* the mouse moves over the canvas, whatever the button, and the next event
\* may come within the 50 ms of the cursor timer
MouseMoveWithin(p) ==
    /\ pointer \in {"up", "down"}
    /\ Len(currentStroke) < MaxStroke
    /\ UNCHANGED ops
    /\ OnGrid(p.x, p.y)
    /\ DrawInDomain(Client)
    /\ ClientStep(Draw(Client, p.x, p.y), [kind |-> "mouseMove", x |-> p.x, y |-> p.y])

\* the cursor timer of the canvas expires.  The timer of usePresence is
\* started by this callback, so it is older than any cursor timer pending
\* with it; both run 50 ms, so it has expired before the next cursor timer
CursorTimerFire(ready) ==
    /\ cursorThrottle # NullRec
    /\ ~presenceThrottle
    /\ UNCHANGED ops
    /\ ClientStep(CursorTimeout(Client, ready), [kind |-> "cursorTimeout"])

\* the timer of usePresence expires
PresenceTimerFire ==
    /\ presenceThrottle
    /\ UNCHANGED ops
    /\ ClientStep(PresenceTimeout(Client), [kind |-> "presenceTimeout"])

\* the mouse leaves the canvas with the button held and the button is
\* released outside: handleCanvasMouseLeave tells the presence channel, the
\* canvas gets neither mouseup nor click
MouseLeave ==
    /\ pointer = "down"
    /\ UNCHANGED ops
    /\ ClientStep(LeaveCursor([Client EXCEPT !.pointer = "up"], TRUE),
                  [kind |-> "mouseLeave"])

MouseUp ==
    /\ pointer = "down"
    /\ UNCHANGED ops
    /\ ClientStep([StopDrawing(Client) EXCEPT !.pointer = "click"], [kind |-> "mouseUp"])

\* the click the browser fires after the mouse went down and up on the canvas
Click(p) ==
    /\ pointer = "click"
    /\ OnGrid(p.x, p.y)
    /\ UNCHANGED ops
    /\ ClientStep([HandleCanvasClick(Client, p.x, p.y, "n2") EXCEPT !.pointer = "up"],
                  [kind |-> "click"])

TextSubmit(key) ==
    /\ textInput # NullRec
    /\ pointer = "up"
    /\ UNCHANGED ops
    /\ ClientStep(HandleTextSubmit(Client, key, "hi"), [kind |-> "textSubmit"])

\* the delete button of the board page
Delete ==
    /\ selectedObject # NoIndex
    /\ pointer = "up"
    /\ UNCHANGED ops
    /\ ClientStep(DeleteSelectedObject(Client), [kind |-> "deleteSelected"])

\* the undo button of the board page, or Ctrl+Z
UndoKey ==
    /\ pointer = "up"
    /\ UNCHANGED ops
    /\ ClientStep(Undo(Client), [kind |-> "undoKey"])

\* the redo button of the board page, or Ctrl+Y
RedoKey ==
    /\ pointer = "up"
    /\ UNCHANGED ops
    /\ ClientStep(Redo(Client), [kind |-> "redoKey"])

\* the socket delivers an event of the relay
ReceiveEvent(p) ==
    /\ pointer # "click"
    /\ Counted
    /\ ClientStep(Receive(Client, p), [kind |-> p.kind, inbound |-> TRUE, event |-> p])

\* mutant: the tombstoned entries stay in the snapshot
ToSnapshotUnfiltered(scene) == [objects |-> scene.objects, stickyNotes |-> scene.stickyNotes]

\* sceneData of the timer: the scene without its tombstoned entries
ToSnapshot(scene) ==
    [objects |-> SelectSeq(scene.objects, LAMBDA obj : ~IsDeleted(obj)),
     stickyNotes |-> scene.stickyNotes]

\* the timer of triggerAutoSave fires.  A save makes the board page render
\* (setSaveStatus), which restarts the timer with the scene of that render;
\* the write to boards.scene_json succeeds or fails.
AutoSaveFire ==
    /\ autoSaveTimer # NullRec
    /\ ~crashed
    /\ LET sceneData == ToSnapshot(autoSaveTimer)
           currentSceneJson == JsonStringify(sceneData)
       IN IF currentSceneJson = lastSavedScene
          THEN /\ autoSaveTimer' = NullRec
               /\ lastEv' = [kind |-> "autoSave", saved |-> FALSE]
               /\ UNCHANGED <<lastSavedScene, sceneJson, ops>>
          ELSE /\ Counted
               /\ lastSavedScene' = currentSceneJson
               /\ autoSaveTimer' = SceneOf(Client)
               /\ \E ok \in BOOLEAN :
                    /\ sceneJson' = IF ok THEN JsonStringify(sceneData) ELSE sceneJson
                    /\ lastEv' = [kind |-> "autoSave", saved |-> TRUE, ok |-> ok]
    /\ UNCHANGED <<clientVars, initialScene, initialSceneLoaded, harnessVars, relayVars,
                   peerVars>>

Next ==
    \/ Mount
    \/ \E t \in Tools : SetTool(t)
    \/ \E p \in Points : MouseDown(p)
    \/ \E p \in Points : MouseMove(p)
    \/ MouseLeave
    \/ MouseUp
    \/ \E p \in Points : Click(p)
    \/ \E key \in {"Enter", "Escape"} : TextSubmit(key)
    \/ Delete
    \/ UndoKey
    \/ RedoKey
    \/ \E p \in InboundEvents : ReceiveEvent(p)
    \/ AutoSaveFire

Spec == Init /\ [][Next]_vars

----------------------------------------------------------------------------
(* SpecGesture: the same session seen from the canvas alone.  The autosave  *)
(* timer never fires and the relay sends only what bears on the gestures:   *)
(* the undo and redo of a peer, and a delete that leaves a tombstone.       *)

\* the tools of the toolbar a gesture starts with
ToolBar == Tools \cup {"stickyNote", "pan"}

\* offsetX, offsetY of the mouse moves: a move of 5 units besides the others
Targets == Points \cup {Pt(5, 0)}

GestureEvents ==
    {[kind |-> "undo", imageData |-> Image],
     [kind |-> "redo", imageData |-> Image],
     [kind |-> "delete", index |-> 0]}

NextGesture ==
    \/ Mount
    \/ \E t \in ToolBar : SetTool(t)
    \/ \E p \in Points : MouseDown(p)
    \/ \E p \in Targets : MouseMove(p)
    \/ MouseLeave
    \/ MouseUp
    \/ \E p \in Points : Click(p)
    \/ \E key \in {"Enter", "Escape"} : TextSubmit(key)
    \/ Delete
    \/ UndoKey
    \/ RedoKey
    \/ \E p \in GestureEvents : ReceiveEvent(p)

SpecGesture == Init /\ [][NextGesture]_vars

----------------------------------------------------------------------------
(* SpecTouch: the session on a touch screen.  Contacts arrive one or two at *)
(* a time, move, and lift one by one; the toolbar changes the tool between   *)
(* them.                                                                     *)

\* where a contact touches the canvas (clientX - rect.left, clientY - rect.top)
TouchPoints == {Pt(0, 0), Pt(20, 0), Pt(40, 0)}

\* the contacts a touchstart adds
NewTouches == {<<p>> : p \in TouchPoints} \cup {<<p, q>> : p, q \in TouchPoints}

\* e.touches of a touchmove
TouchLists == UNION {[1 .. k -> TouchPoints] : k \in 1 .. MaxTouches}

\* the sequence s without its n-th element
Without(s, n) == SubSeq(s, 1, n - 1) \o SubSeq(s, n + 1, Len(s))

\* contacts come down
TouchStart(new, pencil) ==
    /\ pointer = "up"
    /\ Len(touches) + Len(new) <= MaxTouches
    /\ OnGrid((touches \o new)[1].x, (touches \o new)[1].y)
    /\ Counted
    /\ ClientStep(HandleTouchStart(Client, touches \o new, pencil),
                  [kind |-> "touchStart", count |-> Len(new)])

\* the contacts move to the positions ts and then rest for 50 ms; a move of
\* two contacts counts as an operation of the session
TouchMove(ts) ==
    /\ Len(ts) = Len(touches)
    /\ ts # touches
    /\ Len(currentStroke) < MaxStroke
    /\ IF Len(ts) = 1 THEN UNCHANGED ops ELSE Counted
    /\ OnGrid(ts[1].x, ts[1].y)
    /\ DrawInDomain(Client)
    /\ ClientStep(Rest(HandleTouchMove(Client, ts)), [kind |-> "touchMove"])

\* the n-th contact lifts, or is cancelled
TouchEnd(n) ==
    /\ n \in DOMAIN touches
    /\ UNCHANGED ops
    /\ ClientStep(HandleTouchEnd(Client, Without(touches, n)), [kind |-> "touchEnd"])

NextTouch ==
    \/ Mount
    \/ \E t \in ToolBar : SetTool(t)
    \/ \E new \in NewTouches, pencil \in BOOLEAN : TouchStart(new, pencil)
    \/ \E ts \in TouchLists : TouchMove(ts)
    \/ \E n \in 1 .. MaxTouches : TouchEnd(n)

SpecTouch == Init /\ [][NextTouch]_vars

\* SpecFingers: the touch handlers alone; the tool is chosen while no contact
\* is on the canvas
NextFingers ==
    \/ Mount
    \/ \E t \in ToolBar : touches = << >> /\ SetTool(t)
    \/ \E new \in NewTouches, pencil \in BOOLEAN : TouchStart(new, pencil)
    \/ \E ts \in TouchLists : TouchMove(ts)
    \/ \E n \in 1 .. MaxTouches : TouchEnd(n)

SpecFingers == Init /\ [][NextFingers]_vars

----------------------------------------------------------------------------
(* SpecZoom: the viewport under the wheel, the zoom keys, the pan tool, the *)
(* pinch of two contacts, with events of the relay arriving in between.     *)
(* The mouse stays up while a contact is down.                              *)

\* one notch of the wheel over the canvas
Wheel(p, down) ==
    /\ Counted
    /\ ClientStep(HandleWheel(Client, p.x, p.y, down),
                  [kind |-> "wheel", x |-> p.x, y |-> p.y, down |-> down])

\* Ctrl+= held for n keydown events
ZoomInKey(n) ==
    /\ Counted
    /\ ClientStep(ZoomIn(Client, n), [kind |-> "zoomIn", count |-> n])

\* Ctrl+- held for n keydown events
ZoomOutKey(n) ==
    /\ Counted
    /\ ClientStep(ZoomOut(Client, n), [kind |-> "zoomOut", count |-> n])

\* Ctrl+0
ResetZoomKey ==
    /\ viewportTransform # InitialTransform
    /\ UNCHANGED ops
    /\ ClientStep(ResetZoom(Client), [kind |-> "resetZoom"])

\* keydown events of a zoom key: one press, and a key held until the scale
\* has reached its limit
KeyCounts == {1, KeyRepeats}

\* what the relay sends while the viewport moves
ZoomEvents ==
    {[kind |-> "stroke", data |-> Spread([socketId |-> "s2"], NewStroke(<<Pt(0, 0)>>, "pen"))],
     [kind |-> "move", index |-> 0, deltaX |-> 5, deltaY |-> 0]}

\* the contacts that come down: one, and two a short and a long way apart
ZoomTouches == {<<Pt(0, 0)>>, <<Pt(0, 0), Pt(20, 0)>>, <<Pt(0, 0), Pt(40, 0)>>}

\* e.touches of a touchmove: one contact dragged, two contacts a short and a
\* long way apart
ZoomMoves == {<<Pt(20, 0)>>, <<Pt(0, 0), Pt(20, 0)>>, <<Pt(0, 0), Pt(40, 0)>>}

NextZoom ==
    \/ Mount
    \/ SetTool("pan")
    \/ touches = << >> /\ MouseDown(Pt(0, 0))
    \/ \E p \in Points : MouseMove(p)
    \/ MouseUp
    \/ Click(Pt(0, 0))
    \/ \E down \in BOOLEAN : Wheel(Pt(20, 10), down)
    \/ \E n \in KeyCounts : ZoomInKey(n)
    \/ \E n \in KeyCounts : ZoomOutKey(n)
    \/ ResetZoomKey
    \/ \E new \in ZoomTouches : TouchStart(new, FALSE)
    \/ \E ts \in ZoomMoves : TouchMove(ts)
    \/ \E n \in 1 .. MaxTouches : TouchEnd(n)
    \/ \E p \in ZoomEvents : ReceiveEvent(p)

SpecZoom == Init /\ [][NextZoom]_vars

----------------------------------------------------------------------------
(* SpecNotes: the sticky notes under the mouse, under one or two contacts   *)
(* and under the resizes and creations of peers.                            *)

\* the eight resize handles of a selected note
NoteHandles == {"nw", "ne", "sw", "se", "n", "s", "w", "e"}

\* clientX, clientY of the pointer: far enough apart for a drag to meet the
\* minimum size, and to grow the note
NotePoints == {Pt(0, 0), Pt(150, 120), Pt(-30, -30)}

\* e.touches of the touch events over a note
NoteTouches == {<<p>> : p \in NotePoints} \cup {<<Pt(0, 0), Pt(150, 120)>>}

\* handleStickyNoteTouchStart
HandleStickyNoteTouchStart(c, ts, noteId, handle) ==
    IF Len(ts) # 1 THEN c
    ELSE HandleStickyNoteMouseDown(c, ts[1].x, ts[1].y, noteId, handle)

\* handleStickyNoteTouchMove
HandleStickyNoteTouchMove(c, ts) ==
    IF Len(ts) # 1 THEN c
    ELSE HandleStickyNoteMouseMove(c, ts[1].x, ts[1].y)

NoteGesture == draggingStickyNote # Null \/ resizingStickyNote # Null

\* the mouse goes down on a note or on one of its handles
NoteMouseDown(noteId, handle, p) ==
    /\ ~NoteGesture
    /\ Counted
    /\ ClientStep(HandleStickyNoteMouseDown(Client, p.x, p.y, noteId, handle),
                  [kind |-> "noteMouseDown", id |-> noteId, handle |-> handle])

\* the window listener of mousemove, there while a note gesture is on
NoteMouseMove(p) ==
    /\ NoteGesture
    /\ UNCHANGED ops
    /\ ClientStep(HandleStickyNoteMouseMove(Client, p.x, p.y),
                  [kind |-> "noteMouseMove", x |-> p.x, y |-> p.y])

\* the window listeners of mouseup and of touchend
NoteMouseUp ==
    /\ NoteGesture
    /\ UNCHANGED ops
    /\ ClientStep(HandleStickyNoteMouseUp(Client), [kind |-> "noteMouseUp"])

\* contacts come down on a note or on one of its handles
NoteTouchStart(noteId, handle, ts) ==
    /\ ~NoteGesture
    /\ Counted
    /\ ClientStep(HandleStickyNoteTouchStart(Client, ts, noteId, handle),
                  [kind |-> "noteTouchStart", id |-> noteId, handle |-> handle,
                   count |-> Len(ts)])

\* the window listener of touchmove
NoteTouchMove(ts) ==
    /\ NoteGesture
    /\ UNCHANGED ops
    /\ ClientStep(HandleStickyNoteTouchMove(Client, ts),
                  [kind |-> "noteTouchMove", count |-> Len(ts)])

\* what a peer that runs this client sends of its notes: the note a click
\* of the sticky-note tool creates, and what the resize of such a note by a
\* handle and a pointer delta leaves
PeerNoteEvents ==
    {Spread([kind |-> "stickyNote:create"], Note1)}
    \cup {Spread([kind |-> "stickyNote:resize", id |-> "n1"],
                 ResizedNote([width |-> 200, height |-> 200, noteX |-> 0, noteY |-> 0],
                             handle, d.x, d.y)) :
            handle \in {"nw", "se"}, d \in {Pt(150, 120), Pt(-30, -30)}}

NextNotes ==
    \/ Mount
    \/ \E noteId \in {"n1", "n2"}, handle \in NoteHandles \cup {Null}, p \in {Pt(0, 0)} :
            NoteMouseDown(noteId, handle, p)
    \/ \E p \in NotePoints : NoteMouseMove(p)
    \/ NoteMouseUp
    \/ \E handle \in {"nw", "e", Null}, ts \in {<<Pt(0, 0)>>, <<Pt(0, 0), Pt(150, 120)>>} :
            NoteTouchStart("n1", handle, ts)
    \/ \E ts \in NoteTouches : NoteTouchMove(ts)
    \/ \E p \in PeerNoteEvents : ReceiveEvent(p)

SpecNotes == Init /\ [][NextNotes]_vars

----------------------------------------------------------------------------
(* SpecCursor: the mouse over the canvas with events that follow each other *)
(* within the 50 ms of the cursor timer.                                    *)

NextCursor ==
    \/ Mount
    \/ \E t \in ToolBar : SetTool(t)
    \/ \E p \in Points : MouseDown(p)
    \/ \E p \in Targets : MouseMoveWithin(p)
    \/ MouseLeave
    \/ MouseUp
    \/ \E p \in Points : Click(p)
    \/ \E ready \in BOOLEAN : CursorTimerFire(ready)
    \/ PresenceTimerFire

SpecCursor == Init /\ [][NextCursor]_vars

----------------------------------------------------------------------------
(* SpecRemote: the session while two peers draw.  The relay forwards their  *)
(* draw points and their committed strokes; the user draws too.             *)

\* the connection ids of the two peers
PeerIds == {"s2", "s3"}

\* the draw events and stroke commits of the peers
RemoteEvents ==
    {[kind |-> "draw", socketId |-> id, x |-> q.x, y |-> q.y, color |-> Black, size |-> 4,
      tool |-> "pen", isStart |-> start] : id \in PeerIds, q \in Points, start \in BOOLEAN}
    \cup {[kind |-> "stroke",
           data |-> Spread([socketId |-> id], NewStroke(<<Pt(0, 0), Pt(20, 10)>>, "pen"))] :
           id \in PeerIds}

NextRemote ==
    \/ Mount
    \/ \E p \in RemoteEvents : ReceiveEvent(p)
    \/ \E p \in Points : MouseDown(p)
    \/ \E p \in Points : MouseMove(p)
    \/ MouseUp
    \/ \E p \in Points : Click(p)

SpecRemote == Init /\ [][NextRemote]_vars

----------------------------------------------------------------------------
(* SpecSelect: the pointer-down of the select tool as a function of the     *)
(* scene, the selection and the point.  The session is taken up where the   *)
(* select tool is chosen, with a scene of up to MaxScene objects, tombstones *)
(* among them, and a selection that earlier presses and inbound events left. *)

SelectObjects ==
    {NewShape("rectangle", 0, 0, 20, 10),
     NewStroke(<<Pt(20, 10)>>, "pen"),
     Spread(NewShape("rectangle", 0, 0, 20, 10), [deleted |-> TRUE]),
     Spread(NewStroke(<<Pt(20, 10)>>, "pen"), [deleted |-> TRUE])}

SelectScenes == SeqsUpTo(SelectObjects, MaxScene)

\* a mounted session with the select tool and no gesture in progress
SelectSession ==
    /\ tool = "select"
    /\ stickyNotes = << >>
    /\ remoteStrokes = << >>
    /\ pointer = "up"
    /\ viewportTransform = InitialTransform
    /\ panStart = Pt(0, 0)
    /\ crashed = FALSE
    /\ isDragging = FALSE
    /\ dragOffset = Pt(0, 0)
    /\ isResizing = FALSE
    /\ resizeHandle = Null
    /\ resizeStartData = NullRec
    /\ isDrawing = FALSE
    /\ currentStroke = << >>
    /\ isDrawingShape = FALSE
    /\ shapeStart = NullRec
    /\ liveShape = NullRec
    /\ isPanning = FALSE
    /\ textInput = NullRec
    /\ undoStack = <<Image>>
    /\ redoStack = << >>
    /\ emitted = << >>
    /\ TouchIdle
    /\ CursorIdle
    /\ NotesIdle
    /\ initialScene = JsonParse(EmptySnapshot)
    /\ initialSceneLoaded = TRUE
    /\ lastSavedScene = EmptySnapshot
    /\ autoSaveTimer = NullRec
    /\ sceneJson = EmptySnapshot
    /\ HarnessIdle /\ RelayIdle /\ PeersIdle
    /\ lastEv = NoEvent

InitSelect ==
    /\ objects \in SelectScenes
    /\ selectedObject \in {NoIndex} \cup (0 .. MaxScene)
    /\ SelectSession
    /\ ops = 0

NextSelect ==
    \/ \E p \in Targets : MouseDown(p)
    \/ MouseUp
    \/ \E p \in Points : Click(p)

SpecSelect == InitSelect /\ [][NextSelect]_vars

----------------------------------------------------------------------------
(* SpecResize: a selected rectangle, ellipse or triangle under the mouse.   *)
(* The shape is 40 by 40, so that each of its eight handles is the only one *)
(* within reach of the pointer that goes down on it.  Drawing and selecting *)
(* it has taken all operations of the session but the last.                 *)

ResizeShapes == {NewShape(t, 0, 0, 40, 40) : t \in ShapeTypes}

\* where the pointer goes down: the eight handles of the selected shape
\* (its bounds are the shape with a padding of 5) and its middle
HandlePoints ==
    {HandlePos(GetObjectBounds(NewShape("rectangle", 0, 0, 40, 40)), HandleOrder[n]) :
        n \in DOMAIN HandleOrder} \cup {Pt(20, 20)}

\* where the pointer moves: by (20, 10) from a handle, and to a point up and
\* left of the shape, past the edge opposite an east or south handle
ResizeTargets ==
    {Pt(h.x + 20, h.y + 10) : h \in HandlePoints \ {Pt(20, 20)}} \cup {Pt(-25, -35)}

InitResize ==
    /\ objects \in {<<shape>> : shape \in ResizeShapes}
    /\ selectedObject = 0
    /\ SelectSession
    /\ ops = MaxOps - 1

NextResize ==
    \/ \E p \in HandlePoints : MouseDown(p)
    \/ \E p \in ResizeTargets : MouseMove(p)
    \/ MouseUp
    \/ Click(Pt(20, 20))

SpecResize == InitResize /\ [][NextResize]_vars

----------------------------------------------------------------------------
(* SpecReshape: a selected object of each variant that can be resized,      *)
(* under the mouse: one press on a handle, moves to several points, the     *)
(* release.                                                                 *)

ReshapeObjects ==
    {NewShape("rectangle", 0, 0, 40, 40),
     NewLine("arrow", 0, 0, 40, 20),
     NewStroke(<<Pt(0, 0), Pt(40, 40)>>, "pen"),
     NewText("text", 0, 40)}

\* where the pointer moves during the gesture
ReshapeTargets == {Pt(20, 10), Pt(60, 50), Pt(45, 45), Pt(-25, -35)}

InitReshape ==
    /\ objects \in {<<obj>> : obj \in ReshapeObjects}
    /\ selectedObject = 0
    /\ SelectSession
    /\ ops = MaxOps - 1

NextReshape ==
    \/ \E n \in DOMAIN HandleOrder :
            MouseDown(HandlePos(GetObjectBounds(objects[1]), HandleOrder[n]))
    \/ \E p \in ReshapeTargets : MouseMove(p)
    \/ MouseUp
    \/ Click(Pt(20, 20))

SpecReshape == InitReshape /\ [][NextReshape]_vars

----------------------------------------------------------------------------
(* SpecHit: the select tool over a stroke of a single point, under the      *)
(* mouse and under one contact.                                             *)

\* the stroke, and pointers at distance 0, 8, 15 and 25 from it
HitStroke == NewStroke(<<Pt(50, 50)>>, "pen")
HitPoints == {Pt(50, 50), Pt(58, 50), Pt(65, 50), Pt(75, 50)}

InitHit ==
    /\ objects = <<HitStroke>>
    /\ selectedObject = NoIndex
    /\ SelectSession
    /\ ops = 0

NextHit ==
    \/ \E p \in HitPoints : touches = << >> /\ MouseDown(p)
    \/ MouseUp
    \/ \E p \in HitPoints : Click(p)
    \/ \E p \in HitPoints : TouchStart(<<p>>, FALSE)
    \/ \E p \in HitPoints : TouchMove(<<p>>)
    \/ TouchEnd(1)

SpecHit == InitHit /\ [][NextHit]_vars

----------------------------------------------------------------------------
(* SpecPolyline: the select tool over a stroke of two or three points far   *)
(* apart, under the mouse: presses on and off the stroke, drags.            *)

PolylineStrokes ==
    {NewStroke(<<Pt(10, 50), Pt(90, 50)>>, "pen"),
     NewStroke(<<Pt(20, 20), Pt(50, 50), Pt(80, 20)>>, "pen")}

\* on the middle of a segment, on another segment, next to a vertex, far off
PolylinePoints == {Pt(50, 50), Pt(35, 35), Pt(12, 52), Pt(50, 80)}

InitPolyline ==
    /\ objects \in {<<obj>> : obj \in PolylineStrokes}
    /\ selectedObject = NoIndex
    /\ SelectSession
    /\ ops = 0

NextPolyline ==
    \/ \E p \in PolylinePoints : MouseDown(p)
    \/ \E p \in PolylinePoints : MouseMove(p)
    \/ MouseUp
    \/ \E p \in PolylinePoints : Click(p)

SpecPolyline == InitPolyline /\ [][NextPolyline]_vars

----------------------------------------------------------------------------
(* SpecView: the two coordinate conversions under the viewports the wheel   *)
(* and the zoom keys produce.  A conversion is a render or a handler        *)
(* calling screenToCanvas or canvasToScreen; lastEv holds its argument and  *)
(* its result, and the conversion back that of both.                        *)

\* the points converted, pixels and scene points alike
ViewPoints == {Pt(Whole(0), Whole(0)), Pt(Whole(7), Whole(3)),
               Pt(Whole(65), Whole(50)), Pt(Whole(-11), Whole(100))}

\* screenToCanvas(p.x, p.y)
ToCanvas(p) ==
    /\ lastEv' = [kind |-> "screenToCanvas", from |-> p, to |-> ScreenToCanvas(p.x, p.y)]
    /\ UNCHANGED <<clientVars, persistVars, harnessVars, relayVars, peerVars, ops>>

\* canvasToScreen(q.x, q.y)
ToScreen(q) ==
    /\ lastEv' = [kind |-> "canvasToScreen", from |-> q, to |-> CanvasToScreen(q.x, q.y)]
    /\ UNCHANGED <<clientVars, persistVars, harnessVars, relayVars, peerVars, ops>>

\* the result of the last conversion converted back
ConvertBack ==
    /\ lastEv.kind \in {"screenToCanvas", "canvasToScreen"}
    /\ lastEv' = [kind |-> IF lastEv.kind = "screenToCanvas" THEN "screenRoundTrip"
                            ELSE "canvasRoundTrip",
                   from |-> lastEv.from,
                   to |-> lastEv.to,
                   back |-> IF lastEv.kind = "screenToCanvas"
                            THEN CanvasToScreen(lastEv.to.x, lastEv.to.y)
                            ELSE ScreenToCanvas(lastEv.to.x, lastEv.to.y)]
    /\ UNCHANGED <<clientVars, persistVars, harnessVars, relayVars, peerVars, ops>>

InitView ==
    /\ objects = << >>
    /\ selectedObject = NoIndex
    /\ SelectSession
    /\ ops = 0

NextView ==
    \/ \E down \in BOOLEAN : Wheel(Pt(20, 10), down)
    \/ \E n \in KeyCounts : ZoomInKey(n)
    \/ \E n \in KeyCounts : ZoomOutKey(n)
    \/ ResetZoomKey
    \/ \E p \in ViewPoints : ToCanvas(p)
    \/ \E q \in ViewPoints : ToScreen(q)
    \/ ConvertBack

SpecView == InitView /\ [][NextView]_vars

----------------------------------------------------------------------------
(* SpecSnapshot: the snapshot round trip.  A session holds a drawn scene    *)
(* and its autosave timer is pending; the timer fires, the page is opened    *)
(* again on what was saved, and the new session loads it.                    *)

Note2 ==
    [id |-> "n2", x |-> 20, y |-> 10, width |-> 100, height |-> 100,
     text |-> "ok", color |-> "#ffd700", zIndex |-> 1]

NoteSpace == {<< >>, <<Note1>>, <<Note2, Note1>>}

\* the state a Whiteboard component starts from
FreshClient ==
    [objects |-> << >>, stickyNotes |-> << >>, remoteStrokes |-> << >>,
     tool |-> "pen", pointer |-> "up",
     viewportTransform |-> InitialTransform,
     panStart |-> Pt(0, 0), crashed |-> FALSE, selectedObject |-> NoIndex,
     isDragging |-> FALSE, dragOffset |-> Pt(0, 0), isResizing |-> FALSE,
     resizeHandle |-> Null, resizeStartData |-> NullRec, isDrawing |-> FALSE,
     currentStroke |-> << >>, isDrawingShape |-> FALSE, shapeStart |-> NullRec,
     liveShape |-> NullRec, isPanning |-> FALSE, textInput |-> NullRec,
     undoStack |-> << >>, redoStack |-> << >>, touches |-> << >>, touchMode |-> Null,
     isTouching |-> FALSE, lastTouchDistance |-> NoDistance, lastTouchCenter |-> NullRec,
     cursorThrottle |-> NullRec, presenceThrottle |-> FALSE, presenceSent |-> << >>,
     selectedStickyNote |-> Null, draggingStickyNote |-> Null,
     stickyNoteDragOffset |-> Pt(0, 0), resizingStickyNote |-> Null,
     stickyNoteResizeHandle |-> Null, stickyNoteResizeStart |-> NullRec,
     listenerNotes |-> << >>,
     emitted |-> << >>, touched |-> FALSE]

InitSnapshot ==
    /\ before \in [objects : SceneSpace, stickyNotes : NoteSpace]
    /\ objects = before.objects
    /\ SessionState(before.stickyNotes, <<Image>>)
    /\ script = << >>
    /\ applied = 0
    /\ initialScene = JsonParse(EmptySnapshot)
    /\ initialSceneLoaded = TRUE
    /\ lastSavedScene = EmptySnapshot
    /\ autoSaveTimer = before
    /\ sceneJson = EmptySnapshot
    /\ RelayIdle /\ PeersIdle
    /\ lastEv = NoEvent
    /\ ops = 0

\* the board page is opened again: it fetches the board and renders a new
\* Whiteboard with initialScene = JSON.parse(boardData.scene_json)
Reopen ==
    /\ lastEv.kind = "autoSave"
    /\ applied = 0
    /\ applied' = 1
    /\ SetClient(FreshClient)
    /\ initialScene' = JsonParse(sceneJson)
    /\ initialSceneLoaded' = FALSE
    /\ lastSavedScene' = NoJson
    /\ autoSaveTimer' = NullRec
    /\ lastEv' = [kind |-> "open"]
    /\ UNCHANGED <<sceneJson, before, script, relayVars, peerVars, ops>>

NextSnapshot == AutoSaveFire \/ Reopen \/ Mount

SpecSnapshot == InitSnapshot /\ [][NextSnapshot]_vars

----------------------------------------------------------------------------
(* SpecPeers: the clients of one room and the relay between them.  Each      *)
(* socket carries its events in order: uplink[s] from client s to the relay, *)
(* inbox[s] from the relay to client s.  peerObjects[s] is the object        *)
(* sequence of client s.                                                    *)

Room == "r1"

\* the Whiteboard of peer s, idle, as far as its object handlers read it
PeerClient(s) ==
    [FreshClient EXCEPT !.objects = peerObjects[s], !.undoStack = <<Image>>]

\* what the user of peer s writes and draws
PeerText(s) == IF s = "s1" THEN "hi" ELSE "yo"
PeerTools(s) == IF s = "s1" THEN {"pen"} ELSE {"rectangle"}

\* the handlers of peer s that commit an object, each from the state its
\* gesture has led to: the text box open, a stroke or a shape under way
PeerCommits(s) ==
    {HandleTextSubmit([PeerClient(s) EXCEPT !.tool = "text", !.textInput = Pt(0, 20)],
                      "Enter", PeerText(s))}
    \cup {StopDrawing([PeerClient(s) EXCEPT !.tool = t, !.isDrawing = TRUE,
                                            !.currentStroke = <<Pt(0, 0), Pt(10, 5)>>]) :
            t \in PeerTools(s) \cap {"pen"}}
    \cup {StopDrawing([PeerClient(s) EXCEPT !.tool = t, !.isDrawingShape = TRUE,
                                            !.shapeStart = Pt(0, 0),
                                            !.liveShape = NewShape(t, 0, 0, 20, 10)]) :
            t \in PeerTools(s) \cap ShapeTools}

\* socket.emit(kind, { roomId, ...payload }) for each emission of a handler
Outbound(emissions) == [n \in DOMAIN emissions |-> Spread(emissions[n], [roomId |-> Room])]

InitPeers ==
    /\ ClientInit /\ PersistIdle /\ HarnessIdle /\ RelayIdle /\ PeersIdle
    /\ lastEv = NoEvent
    /\ ops = 0

PeersFrame == UNCHANGED <<clientVars, persistVars, harnessVars>>

\* the board page of peer s opens its socket and joins the room
PeerOpen(s) ==
    /\ RelayConnect(s)
    /\ uplink' = [uplink EXCEPT ![s] = Append(@, [kind |-> "join-room", roomId |-> Room])]
    /\ lastEv' = [kind |-> "open", peer |-> s]
    /\ UNCHANGED <<rooms, adapter, inbox, peerObjects, ops>>
    /\ PeersFrame

\* a handler of peer s has changed its objects and emitted
PeerStep(s, c, ev) ==
    /\ conn[s] = "open"
    /\ ops < MaxEdits
    /\ Len(c.objects) <= MaxObjects
    /\ peerObjects' = [peerObjects EXCEPT ![s] = c.objects]
    /\ uplink' = [uplink EXCEPT ![s] = @ \o Outbound(c.emitted)]
    /\ lastEv' = ev
    /\ ops' = ops + 1
    /\ UNCHANGED <<rooms, adapter, currentRoom, conn, inbox>>
    /\ PeersFrame

\* peer s commits an object: appended locally, sent to the relay
PeerCommit(s) ==
    \E c \in PeerCommits(s) : PeerStep(s, c, [kind |-> "commit", peer |-> s])

\* peer s deletes the object it has selected
PeerDelete(s) ==
    \E index \in 0 .. (Len(peerObjects[s]) - 1) :
        PeerStep(s, DeleteSelectedObject([PeerClient(s) EXCEPT !.selectedObject = index]),
                 [kind |-> "delete", peer |-> s, index |-> index])

\* the relay runs the handler of the next event of socket s
RelayHandle(s) ==
    /\ uplink[s] # << >>
    /\ LET ev == Head(uplink[s])
       IN IF ev.kind = "join-room"
          THEN RelayJoinRoom(s, ev.roomId, inbox) /\ UNCHANGED conn
          ELSE RelayReceive(s, ev, inbox)
    /\ uplink' = [uplink EXCEPT ![s] = Tail(@)]
    /\ lastEv' = [kind |-> "relay", peer |-> s]
    /\ UNCHANGED <<peerObjects, ops>>
    /\ PeersFrame

\* peer s runs the handler of the next event the relay sent it
PeerReceive(s) ==
    /\ inbox[s] # << >>
    /\ peerObjects' = [peerObjects EXCEPT ![s] = Receive(PeerClient(s), Head(inbox[s])).objects]
    /\ inbox' = [inbox EXCEPT ![s] = Tail(@)]
    /\ lastEv' = [kind |-> "receive", peer |-> s, event |-> Head(inbox[s]).kind]
    /\ UNCHANGED <<rooms, adapter, currentRoom, conn, uplink, ops>>
    /\ PeersFrame

NextPeers ==
    \E s \in Sockets :
        \/ PeerOpen(s)
        \/ PeerCommit(s)
        \/ PeerDelete(s)
        \/ RelayHandle(s)
        \/ PeerReceive(s)

SpecPeers == InitPeers /\ [][NextPeers]_vars

----------------------------------------------------------------------------
(* SpecTurns: the clients of one room taking turns.  A member issues an     *)
(* operation only when every socket is drained: what the operation before   *)
(* it emitted has been handled by the relay and by every member.  A socket  *)
(* may open and join at any time.                                           *)

\* nothing is on its way on any socket
Quiet == \A s \in Sockets : uplink[s] = << >> /\ inbox[s] = << >>

\* the commits of peer s: those of PeerCommits, and an arrow for s2
TurnCommits(s) ==
    PeerCommits(s)
    \cup {StopDrawing([PeerClient(s) EXCEPT !.tool = "arrow", !.isDrawingShape = TRUE,
                                            !.shapeStart = Pt(0, 0),
                                            !.liveShape = NewLine("arrow", 0, 0, 20, 10)]) :
            t \in PeerTools(s) \cap ShapeTools}

\* where the pointer of a drag or a resize ends, relative to the press
TurnDeltas == {Pt(15, 10), Pt(-5, 30)}

\* peer s, with the select tool, presses on handle position h of the object
\* at index: selected is what was selected before the press
Pressed(s, selected, index, h) ==
    LET p == HandlePos(GetObjectBounds(At(peerObjects[s], index)), h)
    IN StartSelect([PeerClient(s) EXCEPT !.tool = "select", !.selectedObject = selected],
                   p.x, p.y, p.x, p.y)

\* a handler of member s has changed its objects and emitted, all sockets drained
TurnStep(s, c, ev) ==
    /\ Quiet
    /\ conn[s] = "open" /\ <<s, Room>> \in adapter
    /\ ops < MaxTurns
    /\ Len(c.objects) <= MaxObjects
    /\ peerObjects' = [peerObjects EXCEPT ![s] = c.objects]
    /\ uplink' = [uplink EXCEPT ![s] = @ \o Outbound(c.emitted)]
    /\ lastEv' = ev
    /\ ops' = ops + 1
    /\ UNCHANGED <<rooms, adapter, currentRoom, conn, inbox>>
    /\ PeersFrame

TurnCommit(s) ==
    \E c \in TurnCommits(s) : TurnStep(s, c, [kind |-> "commit", peer |-> s])

\* member s presses on an object and moves the pointer: one move of a drag
TurnDrag(s) ==
    \E index \in 0 .. (Len(peerObjects[s]) - 1), h \in {"nw", "se"}, d \in TurnDeltas :
        LET pressed == Pressed(s, NoIndex, index, h)
        IN /\ pressed.isDragging /\ pressed.selectedObject = index
           /\ TurnStep(s, DrawDrag(pressed, pressed.dragOffset.x + d.x,
                                   pressed.dragOffset.y + d.y),
                       [kind |-> "drag", peer |-> s, index |-> index])

\* member s presses on a handle of the object it has selected, moves the
\* pointer and lets go: the moves change the objects of s, the release emits
TurnResize(s) ==
    \E index \in 0 .. (Len(peerObjects[s]) - 1), h \in {"nw", "se"}, d \in TurnDeltas :
        LET pressed == Pressed(s, index, index, h)
        IN /\ pressed.isResizing
           /\ TurnStep(s, StopResize(DrawResize(pressed, pressed.resizeStartData.x + d.x,
                                                pressed.resizeStartData.y + d.y)),
                       [kind |-> "resize", peer |-> s, index |-> index])

\* member s deletes the object it has selected
TurnDelete(s) ==
    \E index \in 0 .. (Len(peerObjects[s]) - 1) :
        /\ ~IsDeleted(At(peerObjects[s], index))
        /\ TurnStep(s, DeleteSelectedObject([PeerClient(s) EXCEPT !.selectedObject = index]),
                    [kind |-> "delete", peer |-> s, index |-> index])

NextTurns ==
    \E s \in Sockets :
        \/ PeerOpen(s)
        \/ TurnCommit(s)
        \/ TurnDrag(s)
        \/ TurnResize(s)
        \/ TurnDelete(s)
        \/ RelayHandle(s)
        \/ PeerReceive(s)

SpecTurns == InitPeers /\ [][NextTurns]_vars

----------------------------------------------------------------------------
(* SpecReplay: the board page, its snapshot and the relay.  The page opens  *)
(* a socket and joins the room; the Whiteboard loads the snapshot, creates  *)
(* sticky notes and saves; the page is loaded again with a new socket.      *)

\* the ids Date.now().toString() + Math.random().toString(36) may give
NoteIds == {"n1", "n2"}

IdsOf(notes) == {notes[n].id : n \in DOMAIN notes}

\* the ids in use: in the component, in the snapshot, in the relay
UsedIds ==
    IdsOf(stickyNotes) \cup IdsOf(JsonParse(sceneJson).stickyNotes)
        \cup UNION {IdsOf(rooms[r].stickyNotes) : r \in DOMAIN rooms}

\* the socket of the page
PageSockets == {s \in Sockets : conn[s] = "open"}

\* the board page creates its socket and, the board fetched, joins the room
PageJoin ==
    \E s \in Sockets :
        /\ PageSockets = {}
        /\ PeerOpen(s)

\* a handler has run and left the state c; what it emitted goes to the relay
WiredStep(s, c, ev) ==
    /\ Mounted /\ ~crashed
    /\ Len(c.objects) <= MaxObjects
    /\ SetClient(c)
    /\ autoSaveTimer' = IF c.touched /\ initialSceneLoaded THEN SceneOf(c) ELSE autoSaveTimer
    /\ uplink' = [uplink EXCEPT ![s] = @ \o Outbound(c.emitted)]
    /\ lastEv' = ev
    /\ UNCHANGED <<initialScene, initialSceneLoaded, lastSavedScene, sceneJson, harnessVars,
                   rooms, adapter, currentRoom, conn, peerVars>>

\* a click on the canvas with the sticky-note tool (the press and the release
\* before it leave the notes alone); the id of the new note is fresh
NoteClick(p) ==
    \E s \in PageSockets, id \in NoteIds \ UsedIds :
        /\ tool = "stickyNote" /\ pointer = "up"
        /\ WiredStep(s, HandleCanvasClick(Client, p.x, p.y, id), [kind |-> "click"])
        /\ UNCHANGED <<inbox, ops>>

\* the Whiteboard runs the handler of the next event the relay sent the page
PageReceive ==
    \E s \in PageSockets :
        /\ inbox[s] # << >>
        /\ WiredStep(s, Receive(Client, Head(inbox[s])),
                     [kind |-> Head(inbox[s]).kind, inbound |-> TRUE, event |-> Head(inbox[s])])
        /\ inbox' = [inbox EXCEPT ![s] = Tail(@)]
        /\ UNCHANGED ops

\* the page is loaded again: its socket closes, the board is fetched and a
\* new Whiteboard is rendered with initialScene = JSON.parse(boardData.scene_json)
PageReload ==
    \E s \in PageSockets :
        /\ Counted
        /\ RelayDisconnect(s, inbox)
        /\ SetClient(FreshClient)
        /\ initialScene' = JsonParse(sceneJson)
        /\ initialSceneLoaded' = FALSE
        /\ lastSavedScene' = NoJson
        /\ autoSaveTimer' = NullRec
        /\ lastEv' = [kind |-> "open"]
        /\ UNCHANGED <<sceneJson, harnessVars, currentRoom, uplink, peerVars>>

NextReplay ==
    \/ Mount
    \/ PageJoin
    \/ \E s \in Sockets : RelayHandle(s)
    \/ PageReceive
    \/ SetTool("stickyNote")
    \/ \E p \in {Pt(20, 10)} : NoteClick(p)
    \/ AutoSaveFire
    \/ PageReload

SpecReplay == Init /\ [][NextReplay]_vars

----------------------------------------------------------------------------
(* SpecPresence: the Whiteboard of one member (socket SocketId), the relay  *)
(* and a peer that draws a stroke, commits it or not, and disconnects.      *)
(* FairSpecPresence adds what the transport and the peer guarantee: an      *)
(* event on a socket is handled, and the peer's session ends.               *)

Peer == "s2"

\* the Whiteboard of the peer with a pen stroke under way
PeerDrawing == [PeerClient(Peer) EXCEPT !.tool = "pen", !.isDrawing = TRUE,
                                        !.currentStroke = <<Pt(0, 0)>>]

\* the board page of the member or of the peer opens its socket and joins
PresenceOpen(s) == PeerOpen(s)

\* a handler of the peer has run and emitted
PeerEmits(c, ev) ==
    /\ conn[Peer] = "open" /\ <<Peer, Room>> \in adapter
    /\ Counted
    /\ uplink' = [uplink EXCEPT ![Peer] = @ \o Outbound(c.emitted)]
    /\ lastEv' = ev
    /\ UNCHANGED <<rooms, adapter, currentRoom, conn, inbox, peerVars>>
    /\ PeersFrame

\* the peer presses the pen on its canvas: startDrawing sends draw with isStart
PeerStartsStroke ==
    PeerEmits(StartDrawing([PeerClient(Peer) EXCEPT !.tool = "pen"], 0, 0),
              [kind |-> "peerStart"])

\* the peer moves the pen: draw sends draw without isStart
PeerDrawsOn ==
    PeerEmits(Draw(PeerDrawing, 20, 10), [kind |-> "peerDraw"])

\* the peer lifts the pen: stopDrawing sends the stroke
PeerCommitsStroke ==
    PeerEmits(StopDrawing(PeerDrawing), [kind |-> "peerCommit"])

\* the peer closes its page or loses its connection
PeerLeaves ==
    /\ RelayDisconnect(Peer, inbox)
    /\ lastEv' = [kind |-> "disconnect", from |-> Peer]
    /\ UNCHANGED <<uplink, peerVars, ops>>
    /\ PeersFrame

\* the Whiteboard runs the handler of the next event the relay sent it
PresenceReceive ==
    /\ inbox[SocketId] # << >>
    /\ WiredStep(SocketId, Receive(Client, Head(inbox[SocketId])),
                 [kind |-> Head(inbox[SocketId]).kind, inbound |-> TRUE,
                  event |-> Head(inbox[SocketId])])
    /\ inbox' = [inbox EXCEPT ![SocketId] = Tail(@)]
    /\ UNCHANGED ops

NextPresence ==
    \/ Mount
    \/ \E s \in Sockets : PresenceOpen(s)
    \/ \E s \in Sockets : RelayHandle(s)
    \/ PresenceReceive
    \/ PeerStartsStroke
    \/ PeerDrawsOn
    \/ PeerCommitsStroke
    \/ PeerLeaves

SpecPresence == Init /\ [][NextPresence]_vars

FairSpecPresence ==
    /\ SpecPresence
    /\ WF_vars(Mount)
    /\ \A s \in Sockets : WF_vars(PresenceOpen(s))
    /\ \A s \in Sockets : WF_vars(RelayHandle(s))
    /\ WF_vars(PresenceReceive)
    /\ WF_vars(PeerLeaves)

----------------------------------------------------------------------------
(* Properties of the inbound handlers (SpecPatch) *)

IsReplay == script # << >> /\ \A n \in DOMAIN script : script[n] = script[1]

IsTombstoneScript == Len(script) = 3 /\ script[1].kind = "delete" /\ script[3].kind = "move"

\* the variants a patch kind applies to
AppliesTo(kind) ==
    CASE kind = "move" -> KnownTypes
      [] kind = "resize" -> {"text"}
      [] kind = "resizeStroke" -> {"stroke"}
      [] kind = "resizeShape" -> ShapeTypes
      [] kind = "resizeLine" -> LineTypes
      [] kind = "delete" -> KnownTypes \cup {"image"}

\* p names no object of scene, or an object its kind does not apply to
IsStale(scene, p) ==
    \/ ~HasIndex(scene, p.index)
    \/ TypeOf(At(scene, p.index)) \notin AppliesTo(p.kind)

\* obj with every coordinate shifted by (dx, dy), field by field
Translated(obj, dx, dy) ==
    [k \in DOMAIN obj |->
        CASE k \in {"x", "x1", "x2"} -> obj[k] + dx
          [] k \in {"y", "y1", "y2"} -> obj[k] + dy
          [] k = "points" -> [n \in DOMAIN obj.points |->
                                [x |-> obj.points[n].x + dx, y |-> obj.points[n].y + dy]]
          [] OTHER -> obj[k]]

\* obj with the fields the patch carries set to the carried values
Patched(obj, p) ==
    LET carried == IF p.kind = "delete" THEN [deleted |-> TRUE]
                   ELSE [k \in (DOMAIN p) \ {"kind", "index"} |-> p[k]]
    IN [k \in (DOMAIN obj) \cup (DOMAIN carried) |->
            IF k \in DOMAIN carried THEN carried[k] ELSE obj[k]]

\* the object an inbound commit c stands for
IsCommitOf(obj, c) ==
    /\ TypeOf(obj) = (IF c.kind = "shape" THEN c.data.type ELSE c.kind)
    /\ (DOMAIN obj) \ {"type"} = (DOMAIN c.data) \ {"socketId", "type"}
    /\ \A k \in (DOMAIN obj) \ {"type"} : obj[k] = c.data[k]

\* C2 (as stated): after delete{k} and an append, the new object sits at the
\* previous length, and a later move{k} changes no object of the sequence.
C2_MoveOnTombstoneIsNoOp ==
    (IsTombstoneScript /\ applied = 3) =>
        LET k == script[1].index
        IN /\ Len(objects) = Len(before) + 1
           /\ IsCommitOf(objects[Len(before) + 1], script[2])
           /\ objects[k + 1] = Patched(At(before, k), script[1])
           /\ \A j \in 1 .. Len(before) : j # k + 1 => objects[j] = before[j]

\* C2 (amended): after delete{k} an append lands at the previous length and
\* slot k keeps its tombstone; a later move{k} changes only the coordinates of
\* the tombstoned entry k: it stays deleted, and every other entry, the newly
\* appended one included, is unchanged.
C2_TombstoneKeepsIndices ==
    IsTombstoneScript =>
        LET k == script[1].index
        IN /\ Len(objects) = Len(before) + (IF applied >= 2 THEN 1 ELSE 0)
           /\ applied >= 1 =>
                /\ IsDeleted(objects[k + 1])
                /\ \A j \in 1 .. Len(before) : j # k + 1 => objects[j] = before[j]
           /\ applied = 1 => objects = SetAt(before, k, Patched(At(before, k), script[1]))
           /\ applied >= 2 => IsCommitOf(objects[Len(before) + 1], script[2])
           /\ applied = 2 => objects[k + 1] = Patched(At(before, k), script[1])
           /\ applied = 3 =>
                objects[k + 1] =
                    Patched(IF TypeOf(At(before, k)) \in KnownTypes
                            THEN Translated(At(before, k), script[3].deltaX, script[3].deltaY)
                            ELSE At(before, k),
                            script[1])

C2_Witness ==
    /\ IsTombstoneScript /\ applied = 3
    /\ Len(objects) = MaxScene + 1
    /\ script[1].index = 0
    /\ TypeOf(objects[1]) = "rectangle"
    /\ objects[1].x # before[1].x

\* C3: a stale patch (index out of range, or an object of a variant the patch
\* kind does not apply to) leaves the whole sequence unchanged.
C3_StalePatchIgnored ==
    (IsReplay /\ IsStale(before, script[1])) => objects = before

C3_Witness ==
    /\ IsReplay /\ applied = MaxApply
    /\ script[1].kind = "resizeShape"
    /\ HasIndex(before, script[1].index)
    /\ TypeOf(At(before, script[1].index)) = "stroke"

\* C4: a move patch is a relative delta: after n applications of
\* move{i, dx, dy} every coordinate of object i is shifted by (n*dx, n*dy), in
\* particular by (2*dx, 2*dy) after two; no other field and no other object changes.
C4_MoveIsRelativeDelta ==
    (IsReplay /\ script[1].kind = "move" /\ ~IsStale(before, script[1])) =>
        objects = SetAt(before, script[1].index,
                        Translated(At(before, script[1].index),
                                   applied * script[1].deltaX, applied * script[1].deltaY))

C4_Witness ==
    /\ IsReplay /\ script[1].kind = "move" /\ applied = 2
    /\ HasIndex(before, script[1].index)
    /\ TypeOf(At(before, script[1].index)) = "arrow"
    /\ At(objects, script[1].index).x2 = At(before, script[1].index).x2 + 2 * script[1].deltaX
    /\ script[1].deltaX # 0

\* C5: resize, resizeStroke, resizeShape, resizeLine and delete are absolute and
\* idempotent: after one or more applications to a matching object the patched
\* fields hold exactly the carried values and nothing else differs from before.
C5_ResizeAndDeleteAbsolute ==
    (/\ IsReplay /\ applied >= 1
     /\ script[1].kind \in {"resize", "resizeStroke", "resizeShape", "resizeLine", "delete"}
     /\ ~IsStale(before, script[1])) =>
        objects = SetAt(before, script[1].index, Patched(At(before, script[1].index), script[1]))

C5_Witness ==
    /\ IsReplay /\ applied = 2
    /\ script[1].kind = "resizeShape"
    /\ HasIndex(before, script[1].index)
    /\ TypeOf(At(before, script[1].index)) = "ellipse"
    /\ At(objects, script[1].index).width = 50
    /\ At(before, script[1].index).width # 50

----------------------------------------------------------------------------
(* Properties of the relay (SpecRelay).  lastEv' names the handler a step   *)
(* ran and inbox' holds what it emitted.                                    *)

RelayedKinds == BufferKinds \cup NoteKinds \cup PlainKinds \cup {"cursor:move"}

\* the user list of room r
UsersOf(r) == IF r \in DOMAIN rooms THEN rooms[r].users ELSE {}

\* exactly the sockets of to got one event of the kind of ev, the others nothing
DeliveredTo(ev, to, box) ==
    \A t \in Sockets :
        IF t \in to THEN Len(box[t]) = 1 /\ box[t][1].kind = ev.kind
        ELSE box[t] = << >>

\* C6 (as stated): an event of any relayed kind sent with room id R reaches
\* every other socket joined to R, and no one else.
C6_EveryKindReachesMembers ==
    [][lastEv'.kind \in RelayedKinds =>
        DeliveredTo(lastEv', Members(lastEv'.roomId) \ {lastEv'.from}, inbox')]_vars

\* C6: an event sent with room id R reaches exactly the other sockets joined
\* to R (never the sender, never a socket outside R); a cursor:move of a
\* sender that is not in the user list of R reaches no one.
C6_FanOut ==
    [][lastEv'.kind \in RelayedKinds =>
        LET s == lastEv'.from
            r == lastEv'.roomId
            dropped == lastEv'.kind = "cursor:move" /\ s \notin UsersOf(r)
        IN DeliveredTo(lastEv', IF dropped THEN {} ELSE Members(r) \ {s}, inbox')]_vars

\* a stroke sent by a member of R has reached the other member of R
C6_Witness ==
    /\ lastEv.kind = "stroke"
    /\ <<lastEv.from, lastEv.roomId>> \in adapter
    /\ \E t \in Sockets \ {lastEv.from} :
        /\ <<t, lastEv.roomId>> \in adapter
        /\ Len(inbox[t]) = 1 /\ inbox[t][1].kind = "stroke"
    /\ inbox[lastEv.from] = << >>

\* what an event carries besides its sender and its room id
PayloadOf(ev) == [k \in (DOMAIN ev) \ {"from", "roomId"} |-> ev[k]]

\* the buffered object list of room r in rs; empty for a room nobody joined
BufferOf(rs, r) == IF r \in DOMAIN rs THEN rs[r].canvasState ELSE << >>

\* buf after an accepted event ev: commits appended in arrival order, patches
\* applied to the entry they name; clear empties buf iff clearEmpties
BufferAfter(buf, ev, clearEmpties) ==
    LET p == PayloadOf(ev)
    IN CASE ev.kind \in {"stroke", "text", "shape"} -> Append(buf, ev.data)
         [] ev.kind = "clear" -> IF clearEmpties THEN << >> ELSE buf
         [] OTHER ->
            IF IsStale(buf, p) THEN buf
            ELSE [n \in DOMAIN buf |->
                    IF n # p.index + 1 THEN buf[n]
                    ELSE IF p.kind = "move" THEN Translated(buf[n], p.deltaX, p.deltaY)
                    ELSE Patched(buf[n], p)]

IsInit(m) == m.kind = "init"

\* one relay step: a join answers the joiner with one init carrying the
\* buffer of the room, and only buffer events accepted for a room change its
\* buffer
BufferStep(clearEmpties) ==
    /\ lastEv'.kind = "join-room" =>
        LET s == lastEv'.from
            r == lastEv'.roomId
        IN /\ inbox'[s] # << >>
           /\ inbox'[s][1] = [kind |-> "init", initialState |-> BufferOf(rooms, r)]
           /\ \A t \in Sockets : \A n \in DOMAIN inbox'[t] :
                IsInit(inbox'[t][n]) => t = s /\ n = 1
    /\ \A r \in Rooms :
        BufferOf(rooms', r) =
            IF lastEv'.kind \in BufferKinds /\ lastEv'.roomId = r /\ r \in DOMAIN rooms
            THEN BufferAfter(BufferOf(rooms, r), lastEv', clearEmpties)
            ELSE BufferOf(rooms, r)

\* C7 (as stated): the init list holds every commit the relay accepted for
\* the room, in arrival order, with the accepted patches applied.
C7_InitCarriesEveryCommit == [][BufferStep(FALSE)]_vars

\* C7: join-room answers the joiner with one init carrying the buffer of the
\* room: the commits accepted for the room since its last clear, in arrival
\* order, with every accepted move, resize and delete applied to the entry
\* it names; a room nobody joined before yields the empty list.
C7_InitCarriesBuffer == [][BufferStep(TRUE)]_vars

\* a late joiner has got an init list holding a tombstoned entry
C7_Witness ==
    /\ lastEv.kind = "join-room"
    /\ inbox[lastEv.from] # << >>
    /\ IsInit(inbox[lastEv.from][1])
    /\ \E n \in DOMAIN inbox[lastEv.from][1].initialState :
        IsDeleted(inbox[lastEv.from][1].initialState[n])

Has(box, m) == \E n \in DOMAIN box : box[n] = m

\* C8 (as stated): when a socket that joined room R disconnects, every other
\* member of R gets user:left and cursor:leave for it and the socket leaves
\* the user list of R; when a socket joins R, exactly the existing members
\* get user:joined.
C8_MembershipNotices ==
    [][/\ lastEv'.kind = "disconnect" =>
            LET s == lastEv'.from
            IN \A r \in Rooms : <<s, r>> \in adapter =>
                /\ \A t \in Members(r) \ {s} :
                    /\ Has(inbox'[t], [kind |-> "user:left", odId |-> s])
                    /\ Has(inbox'[t], [kind |-> "cursor:leave", odId |-> s])
                /\ s \notin rooms'[r].users
       /\ lastEv'.kind = "join-room" =>
            LET s == lastEv'.from
                r == lastEv'.roomId
            IN \A t \in Sockets :
                Has(inbox'[t], [kind |-> "user:joined", odId |-> s]) <=> t \in Members(r) \ {s}
      ]_vars

----------------------------------------------------------------------------
(* Properties of the client session (Spec).  lastEv' names the handler a    *)
(* step ran.                                                                *)

\* b is the object a was created as: moves and resizes change its geometry
\* and a delete flags it, the rest stays
Identity(obj) ==
    [k \in (DOMAIN obj) \cap {"type", "text", "color", "size", "tool"} |-> obj[k]]

\* the step keeps every assigned index: nothing removed, nothing swapped,
\* no flag taken back
KeepsIndices(prev, next) ==
    /\ Len(next) >= Len(prev)
    /\ \A n \in DOMAIN prev :
        /\ Identity(next[n]) = Identity(prev[n])
        /\ IsDeleted(prev[n]) => IsDeleted(next[n])

\* C1: over every step of a session, local or inbound, the object sequence
\* is append-only: its length never decreases, the object at an assigned
\* index stays that object at that index, and a deletion only sets the entry's
\* deleted flag.
C1_AppendOnly == [][KeepsIndices(objects, objects')]_vars

\* C1, the steps besides the inbound init and clear: each of them keeps every
\* assigned index.
C1_AppendOnlyButInitAndClear ==
    [][~("inbound" \in DOMAIN lastEv' /\ lastEv'.kind \in {"init", "clear"})
            => KeepsIndices(objects, objects')]_vars

\* the init of the relay has replaced the scene loaded from the snapshot, and
\* the autosave has written the replacement over the snapshot
C1_Witness ==
    /\ Len(initialScene.objects) > 0
    /\ lastEv = [kind |-> "autoSave", saved |-> TRUE, ok |-> TRUE]
    /\ objects = << >>
    /\ sceneJson = JsonStringify([objects |-> << >>, stickyNotes |-> <<Note1>>])
    /\ ops = 2

\* the session that loaded the snapshot: opened again, then mounted
Reloaded == applied = 1 /\ lastEv.kind = "mount"

NonDeleted(objs) == SelectSeq(objs, LAMBDA obj : ~IsDeleted(obj))

\* the scene drawn has been written to boards.scene_json: the text is no
\* longer the one the board was created with, unless the scene serializes to it
Serialized ==
    \/ sceneJson # EmptySnapshot
    \/ (NonDeleted(before.objects) = << >> /\ before.stickyNotes = << >>)

\* C10: a scene serialized to the persisted snapshot and loaded from it as
\* the initial scene comes back as its non-deleted objects in their order and
\* all its sticky notes; no tombstoned object is in a persisted snapshot.
C10_SnapshotRoundTrip ==
    /\ \A n \in DOMAIN JsonParse(sceneJson).objects :
            ~IsDeleted(JsonParse(sceneJson).objects[n])
    /\ (Reloaded /\ Serialized) =>
            /\ objects = NonDeleted(before.objects)
            /\ stickyNotes = before.stickyNotes

\* a scene of a tombstoned and a live object and two notes went through the
\* snapshot and was loaded
C10_Witness ==
    /\ Reloaded
    /\ Len(before.objects) = 2
    /\ IsDeleted(before.objects[1])
    /\ Len(objects) = 1
    /\ Len(stickyNotes) = 2
    /\ Serialized

----------------------------------------------------------------------------
(* Properties of the peers of a room (SpecPeers) *)

\* C9: the peers of a room see the creations in the same order: at every
\* index two peers both hold, they hold the same creation, whatever the
\* interleaving of the local and the relayed commits.
C9_SameCreationOrder ==
    \A s, t \in Sockets :
        \A n \in (DOMAIN peerObjects[s]) \cap (DOMAIN peerObjects[t]) :
            Identity(peerObjects[s][n]) = Identity(peerObjects[t][n])

\* both peers have joined, each has committed one object while the other's
\* commit was on its way, and every event has arrived: the two sequences
\* hold the same two creations in opposite orders
C9_Witness ==
    /\ Quiet
    /\ Len(peerObjects["s1"]) = 2
    /\ Len(peerObjects["s2"]) = 2
    /\ peerObjects["s1"][1].type = "text" /\ peerObjects["s1"][1].text = "hi"
    /\ Identity(peerObjects["s1"][1]) = Identity(peerObjects["s2"][2])
    /\ Identity(peerObjects["s1"][2]) = Identity(peerObjects["s2"][1])
    /\ Len(rooms[Room].canvasState) = 2

----------------------------------------------------------------------------
(* Properties of the autosave (Spec) *)

\* the step ran the timer callback
IsAutoSave(ev) == ev.kind = "autoSave"

\* what the timer callback serializes
SnapshotText(scene) == JsonStringify(ToSnapshot(scene))

\* C11: the save callback is invoked only by the timer the last change of
\* the objects or sticky notes started (every change replaces the pending
\* timer, so the timer that fires holds the scene as it is and a burst ends
\* in one save), and not when the serialized scene is identical to the copy
\* kept of the last save.
C11_DebouncedSave ==
    [][/\ (initialSceneLoaded' /\ ~crashed' /\ <<objects, stickyNotes>>' # <<objects, stickyNotes>>)
            => autoSaveTimer' = [objects |-> objects', stickyNotes |-> stickyNotes']
       /\ (sceneJson' # sceneJson \/ lastSavedScene' # lastSavedScene) =>
            \/ lastEv'.kind = "mount"
            \/ /\ IsAutoSave(lastEv') /\ lastEv'.saved
               /\ autoSaveTimer = [objects |-> objects, stickyNotes |-> stickyNotes]
               /\ SnapshotText(autoSaveTimer) # lastSavedScene
               /\ lastSavedScene' = SnapshotText(autoSaveTimer)
               /\ sceneJson' \in {sceneJson, SnapshotText(autoSaveTimer)}
       /\ (IsAutoSave(lastEv') /\ SnapshotText(autoSaveTimer) = lastSavedScene) =>
            /\ ~lastEv'.saved
            /\ UNCHANGED <<sceneJson, lastSavedScene>>]_vars

\* a burst of two changes has ended in one save of the scene they left
C11_Witness ==
    /\ lastEv = [kind |-> "autoSave", saved |-> TRUE, ok |-> TRUE]
    /\ Len(initialScene.objects) = 0
    /\ Len(objects) = 2
    /\ sceneJson = SnapshotText([objects |-> objects, stickyNotes |-> stickyNotes])
    /\ ops = 3


\* C12: a rejected save is retried at the next debounce window: the timer
\* expiry that follows a failed save attempt invokes a save again, also
\* when the scene is byte-identical to the content of the failed attempt
C12_FailedSaveRetried ==
    [][(IsAutoSave(lastEv) /\ lastEv.saved /\ ~lastEv.ok /\ IsAutoSave(lastEv'))
            => lastEv'.saved]_vars

\* the save failed, the next expiry skipped the save, no timer is pending,
\* and the stored snapshot is not the scene of the client
C12_Witness ==
    /\ lastEv = [kind |-> "autoSave", saved |-> FALSE]
    /\ autoSaveTimer = NullRec
    /\ ~crashed
    /\ lastSavedScene = SnapshotText([objects |-> objects, stickyNotes |-> stickyNotes])
    /\ sceneJson # lastSavedScene


----------------------------------------------------------------------------
(* Properties of the gestures and the history (SpecGesture) *)

Top(stack) == stack[Len(stack)]
Front(stack) == SubSeq(stack, 1, Len(stack) - 1)
Snapshots == Len(undoStack) + Len(redoStack)

EmittedKinds(evs) == {evs[i].kind : i \in DOMAIN evs}

\* the step completes a drag or a resize: the mouse button is released with
\* the select tool while the object is dragged or resized
CompletesDragOrResize ==
    /\ lastEv'.kind = "mouseUp"
    /\ ~isPanning /\ ~(isDrawingShape /\ liveShape # NullRec)
    /\ tool = "select"
    /\ isResizing \/ (isDragging /\ selectedObject # NoIndex)

\* the step commits a stroke, a shape or a text to the canvas
CommitsToCanvas == EmittedKinds(emitted') \cap {"stroke", "shape", "text"} # {}

PushesOneSnapshot == undoStack' = Append(undoStack, Image) /\ redoStack' = << >>

\* C14: every committed local operation (a completed stroke, shape, drag or
\* resize, a submitted text, a created sticky note) pushes exactly one
\* snapshot onto the undo stack and clears the redo stack
C14_SnapshotPerCommit ==
    [][(\/ CommitsToCanvas
        \/ CompletesDragOrResize
        \/ "stickyNote:create" \in EmittedKinds(emitted')) => PushesOneSnapshot]_vars

\* the same without the sticky notes
C14_SnapshotPerCanvasCommit ==
    [][(CommitsToCanvas \/ CompletesDragOrResize) => PushesOneSnapshot]_vars

\* a sticky note was created by a click: the only snapshot pushed since the
\* mount is the one of the stroke that the press and release left behind
C14_Witness ==
    /\ lastEv.kind = "click"
    /\ EmittedKinds(emitted) = {"stickyNote:create"}
    /\ Len(initialScene.stickyNotes) = 0 /\ Len(stickyNotes) = 1
    /\ Len(objects) = 1
    /\ Len(undoStack) = 2


Scene == <<objects, stickyNotes>>
IsUndoRedo(ev) == ev.kind \in {"undoKey", "redoKey", "undo", "redo"}
IsInbound(ev) == "inbound" \in DOMAIN ev

\* C15: a local undo or redo and an inbound undo or redo leave the object
\* sequence and the sticky notes unchanged; an inbound undo or redo also
\* leaves the local undo and redo stacks unchanged
C15_UndoRedoBypassScene ==
    [][IsUndoRedo(lastEv') =>
            /\ Scene' = Scene
            /\ IsInbound(lastEv') => UNCHANGED <<undoStack, redoStack>>]_vars

\* the undo of a peer arrives while the local stacks hold a commit and an
\* undone commit
C15_Witness ==
    /\ IsInbound(lastEv) /\ lastEv.kind = "undo"
    /\ Len(objects) = 2
    /\ Len(undoStack) = 2 /\ Len(redoStack) = 1


DrawTools == {"pen", "erase"} \cup ShapeTools
IsMouse(ev, kind) == ev.kind = kind
EventPoint(ev) == CanvasPoint(ev.x, ev.y)

\* the press started a stroke or a shape and nothing else is pending
Stroking == isDrawing /\ ~isDrawingShape /\ ~isPanning /\ tool \in DrawTools \ ShapeTools
Shaping ==
    /\ isDrawingShape /\ liveShape # NullRec /\ shapeStart # NullRec
    /\ ~isDrawing /\ ~isPanning /\ tool \in ShapeTools

\* no drawing flag, no live stroke, no live shape
DrawingIdle ==
    ~isDrawing /\ ~isDrawingShape /\ currentStroke = << >> /\ liveShape = NullRec

\* the step appends obj and emits the one commit patch for it
CommitsOne(obj, patch) ==
    /\ objects' = Append(objects, obj)
    /\ emitted' = <<patch>>

HasSize(s) == Abs(s.width) > 5 \/ Abs(s.height) > 5

\* the rectangle, ellipse or triangle spanned by two corners
Spanned(t, a, b) ==
    NewShape(t, IF a.x <= b.x THEN a.x ELSE b.x, IF a.y <= b.y THEN a.y ELSE b.y,
             Abs(b.x - a.x), Abs(b.y - a.y))

\* the press, the moves and the release of a draw gesture, step by step
DrawGestureSteps ==
    /\ (IsMouse(lastEv', "mouseDown") /\ tool \in DrawTools /\ ~InProgress(Client)) =>
            IF tool \in ShapeTools
            THEN /\ Shaping'
                 /\ shapeStart' = EventPoint(lastEv')
                 /\ liveShape' = Spanned(tool, shapeStart', shapeStart')
                 /\ emitted' = << >> /\ objects' = objects
            ELSE /\ Stroking'
                 /\ currentStroke' = <<EventPoint(lastEv')>>
                 /\ objects' = objects
    /\ (IsMouse(lastEv', "mouseMove") /\ pointer = "down" /\ Stroking) =>
            /\ Stroking'
            /\ currentStroke' = Append(currentStroke, EventPoint(lastEv'))
            /\ objects' = objects
    /\ (IsMouse(lastEv', "mouseMove") /\ pointer = "down" /\ Shaping) =>
            /\ Shaping'
            /\ shapeStart' = shapeStart
            /\ liveShape' = Spanned(tool, shapeStart, EventPoint(lastEv'))
            /\ emitted' = << >> /\ objects' = objects
    /\ (pointer = "down" /\ pointer' = "down" /\ ~IsMouse(lastEv', "mouseMove")) =>
            UNCHANGED <<currentStroke, liveShape, shapeStart, isDrawing, isDrawingShape>>

ReleasesShape ==
    IsMouse(lastEv', "mouseUp") /\ ~isPanning /\ isDrawingShape /\ liveShape # NullRec

Rejected ==
    /\ objects' = objects /\ emitted' = << >>
    /\ UNCHANGED <<undoStack, redoStack>>
    /\ liveShape' = NullRec /\ ~isDrawingShape'

Committed ==
    /\ CommitsOne(liveShape, [kind |-> "shape", data |-> liveShape])
    /\ PushesOneSnapshot
    /\ liveShape' = NullRec /\ ~isDrawingShape'

----------------------------------------------------------------------------
(* Properties of the select tool (SpecSelect) *)

SelectionLive ==
    /\ selectedObject # NoIndex
    /\ HasIndex(objects, selectedObject)
    /\ ~IsDeleted(At(objects, selectedObject))

\* the resize handle of the selected object under the point p, if any
HandleUnder(p) ==
    IF SelectionLive THEN IsPointInResizeHandle(p.x, p.y, At(objects, selectedObject))
    ELSE Null

\* the indices of the live objects that pass their hit test at p
HitsAt(p) ==
    {i \in 0 .. (Len(objects) - 1) :
        ~IsDeleted(At(objects, i)) /\ IsPointInObject(p.x, p.y, At(objects, i))}

Topmost(hits) == CHOOSE i \in hits : \A j \in hits : j <= i

\* C18: with the select tool a pointer-down that hits a resize handle of
\* the selected live object starts a resize of that object, whatever else
\* lies under the pointer; otherwise it selects and starts dragging the
\* highest-index live object that passes its hit test; otherwise it clears
\* the selection.  It never selects a tombstoned object.
C18_SelectPriority ==
    [][(IsMouse(lastEv', "mouseDown") /\ tool = "select") =>
            LET p == EventPoint(lastEv')
            IN /\ objects' = objects
               /\ IF HandleUnder(p) # Null
                  THEN /\ isResizing' /\ resizeHandle' = HandleUnder(p)
                       /\ resizeStartData'.objectIndex = selectedObject
                       /\ UNCHANGED <<selectedObject, isDragging>>
                  ELSE IF HitsAt(p) # {}
                  THEN /\ selectedObject' = Topmost(HitsAt(p))
                       /\ ~IsDeleted(At(objects, selectedObject'))
                       /\ isDragging' /\ dragOffset' = p
                       /\ UNCHANGED <<isResizing, resizeStartData>>
                  ELSE /\ selectedObject' = NoIndex
                       /\ UNCHANGED <<isDragging, isResizing, resizeStartData>>]_vars

\* the rectangle at index 0 is selected and the press on its south-east
\* handle starts its resize although the stroke at index 1 is hit there
C18_Witness ==
    /\ IsMouse(lastEv, "mouseDown") /\ lastEv.x = 20 /\ lastEv.y = 10
    /\ Len(objects) = 2 /\ objects[2].type = "stroke" /\ ~IsDeleted(objects[2])
    /\ objects[1].type = "rectangle" /\ ~IsDeleted(objects[1])
    /\ selectedObject = 0 /\ isResizing /\ ~isDragging
    /\ resizeStartData.objectIndex = 0


----------------------------------------------------------------------------
(* Properties of the pointer leaving the canvas (SpecGesture) *)

\* C20: a drag, resize or pan in progress is cancelled when the pointer
\* leaves the canvas, as on pointer-up: after the leave none of the
\* dragging, resizing and panning flags is set, and pointer moves without a
\* new pointer-down change neither the scene nor the viewport
C20_LeaveCancels ==
    [][/\ IsMouse(lastEv', "mouseLeave") => (~isDragging' /\ ~isResizing' /\ ~isPanning')
       /\ (IsMouse(lastEv', "mouseMove") /\ pointer = "up") =>
            UNCHANGED <<objects, viewportTransform>>]_vars

\* the pointer left the canvas during a drag of the stored rectangle and the
\* button was released outside; the next move over the canvas, no button
\* held, dragged the rectangle along
C20_Witness ==
    /\ IsMouse(lastEv, "mouseMove") /\ lastEv.x = 20 /\ lastEv.y = 10
    /\ pointer = "up"
    /\ isDragging /\ selectedObject = 0
    /\ Len(initialScene.objects) = 1 /\ initialScene.objects[1].x = 0
    /\ Len(objects) = 1 /\ objects[1].x = 20 /\ objects[1].y = 10
    /\ EmittedKinds(emitted) = {"move"}


----------------------------------------------------------------------------
(* Properties of the touch gestures (SpecTouch)                             *)

IsTouch(ev, kind) == ev.kind = kind

\* the viewport moved by the vector from a to b, at the same scale
PannedBy(old, new, a, b) ==
    new = [old EXCEPT !.translateX = FAdd(@, Whole(b.x - a.x)),
                     !.translateY = FAdd(@, Whole(b.y - a.y))]

\* C19: a touch-start that leaves two contacts on the canvas enters pinch
\* mode, whatever the tool and whatever was in progress; when one of the two
\* contacts of a pinch lifts, the same step leaves the session panning with
\* the remaining contact (touch mode pan, isPanning set, pan start at that
\* contact), never idle; and every move of the single contact in pan mode
\* translates the viewport by the vector from the pan start to the contact,
\* at the same scale, makes the contact the new pan start and leaves the
\* scene alone
C19_PinchThenPan ==
    [][/\ (IsTouch(lastEv', "touchStart") /\ Len(touches') = 2) =>
            /\ touchMode' = "pinch"
            /\ lastTouchDistance' = GetTouchDistance(touches'[1], touches'[2])
            /\ lastTouchCenter' = GetTouchCenter(touches'[1], touches'[2])
       /\ (IsTouch(lastEv', "touchEnd") /\ touchMode = "pinch" /\ Len(touches) = 2) =>
            /\ Len(touches') = 1
            /\ touchMode' = "pan" /\ isPanning'
            /\ panStart' = touches'[1]
            /\ UNCHANGED <<objects, viewportTransform, emitted, undoStack>>
       /\ (IsTouch(lastEv', "touchMove") /\ touchMode = "pan" /\ Len(touches) = 1) =>
            /\ PannedBy(viewportTransform, viewportTransform', panStart, touches'[1])
            /\ touchMode' = "pan" /\ isPanning' /\ panStart' = touches'[1]
            /\ UNCHANGED <<objects, emitted>>
      ]_vars

\* a second finger came down on a pen stroke in progress, one of the two
\* lifted, and the remaining one moved the viewport by 20 to the right
C19_Witness ==
    /\ IsTouch(lastEv, "touchMove")
    /\ tool = "pen" /\ isDrawing
    /\ touchMode = "pan" /\ isPanning
    /\ touches = <<Pt(40, 0)>> /\ panStart = Pt(40, 0)
    /\ viewportTransform = [scale |-> Whole(1), translateX |-> Whole(20), translateY |-> Whole(0)]
    /\ lastTouchDistance = NoDistance
    /\ Len(objects) = Len(initialScene.objects)


----------------------------------------------------------------------------
(* Properties of the cursor broadcast (SpecCursor)                          *)

IsTimeout(ev) == ev.kind = "cursorTimeout"

\* a cursor position on the presence channel (not the off-screen position
\* that hides the cursor)
CursorsSent(sent) == {n \in DOMAIN sent : sent[n] # Pt(-1000, -1000)}

\* a move starts a cursor timer only when none is pending, a position is
\* broadcast only by the expiry of that timer, one per expiry, and the
\* expiry clears the timer
ThrottleWindow ==
    /\ (IsMouse(lastEv', "mouseMove") /\ cursorThrottle # NullRec) =>
            cursorThrottle' = cursorThrottle
    /\ (IsMouse(lastEv', "mouseMove") /\ cursorThrottle = NullRec /\ ~isPanning) =>
            cursorThrottle' = EventPoint(lastEv')
    /\ CursorsSent(presenceSent') # {} =>
            /\ IsTimeout(lastEv') /\ Cardinality(CursorsSent(presenceSent')) = 1
            /\ cursorThrottle # NullRec /\ cursorThrottle' = NullRec

\* C21: the cursor broadcast is throttled by the 50 ms timer (a move
\* schedules a broadcast only when none is pending, each expiry broadcasts at
\* most one position), and the position an expiry broadcasts is the position
\* of the latest move before it
C21_ThrottledToLatest ==
    [][/\ ThrottleWindow
       /\ (IsTimeout(lastEv') /\ presenceSent' # << >>
            /\ IsMouse(lastEv, "mouseMove") /\ ~isPanning) =>
                presenceSent'[1] = EventPoint(lastEv)
      ]_vars

\* the throttle without the claim about the position
C21_Throttled == [][ThrottleWindow]_vars

\* the timer started by a move to (20,10) that spanned a rectangle expired
\* after a second move had shrunk the rectangle to (5,0): the broadcast is
\* (20,10)
C21_Witness ==
    /\ IsTimeout(lastEv)
    /\ presenceSent = <<Pt(20, 10)>>
    /\ tool = "rectangle" /\ isDrawingShape
    /\ liveShape # NullRec /\ liveShape.x = 0 /\ liveShape.width = 5 /\ liveShape.height = 0
    /\ viewportTransform = InitialTransform
    /\ cursorThrottle = NullRec


----------------------------------------------------------------------------
(* Properties of the provisional strokes (SpecRemote)                       *)

\* the provisional strokes of the peers other than id are the same in a and b
SameBut(a, b, id) ==
    /\ (DOMAIN a) \ {id} = (DOMAIN b) \ {id}
    /\ \A other \in (DOMAIN a) \ {id} : a[other] = b[other]

\* C22: a peer's stroke in progress lives in an entry keyed by the peer's
\* connection id and never in the object sequence: an inbound draw leaves
\* the objects unchanged; with isStart it makes the peer's entry the
\* one-point stroke of the event, without isStart it appends its point to
\* the peer's entry if there is one and does nothing otherwise; the entries
\* of other peers are never touched; the peer's stroke commit removes its
\* entry and appends exactly one stroke object, the committed one
C22_ProvisionalStrokes ==
    [][(IsInbound(lastEv') /\ lastEv'.kind \in {"draw", "stroke"}) =>
        LET p == lastEv'.event
        IN IF p.kind = "draw" THEN
                /\ objects' = objects
                /\ SameBut(remoteStrokes, remoteStrokes', p.socketId)
                /\ IF p.isStart THEN
                        /\ p.socketId \in DOMAIN remoteStrokes'
                        /\ remoteStrokes'[p.socketId].points = <<Pt(p.x, p.y)>>
                   ELSE IF p.socketId \in DOMAIN remoteStrokes THEN
                        /\ p.socketId \in DOMAIN remoteStrokes'
                        /\ remoteStrokes'[p.socketId].points =
                                Append(remoteStrokes[p.socketId].points, Pt(p.x, p.y))
                   ELSE remoteStrokes' = remoteStrokes
           ELSE /\ p.data.socketId \notin DOMAIN remoteStrokes'
                /\ SameBut(remoteStrokes, remoteStrokes', p.data.socketId)
                /\ Len(objects') = Len(objects) + 1
                /\ SubSeq(objects', 1, Len(objects)) = objects
                /\ objects'[Len(objects')].type = "stroke"
                /\ objects'[Len(objects')].points = p.data.points
      ]_vars

\* while two peers had a stroke in progress, one of them committed: its
\* entry is gone, the other's is still there, and the scene has one more
\* object
C22_Witness ==
    /\ IsInbound(lastEv) /\ lastEv.kind = "stroke" /\ lastEv.event.data.socketId = "s2"
    /\ DOMAIN remoteStrokes = {"s3"}
    /\ remoteStrokes["s3"].points = <<Pt(20, 10)>>
    /\ Len(objects) = Len(initialScene.objects) + 1
    /\ ops = 3


----------------------------------------------------------------------------
(* Properties of the connection identity (SpecPeers)                        *)

\* no object of the list carries a socketId
NoSocketId(objs) == \A n \in DOMAIN objs : "socketId" \notin DOMAIN objs[n]

\* the snapshot the autosave of peer s writes: scene_json
SnapshotOf(s) == SnapshotText([objects |-> peerObjects[s], stickyNotes |-> << >>])

\* C23: the connection id of the emitting peer is never stored: no object in
\* a replay buffer of the relay, in an init list on its way to a client, in
\* a client's object sequence or in the snapshot a client saves carries a
\* socketId
C23_SocketIdNotStored ==
    /\ \A r \in DOMAIN rooms : NoSocketId(rooms[r].canvasState)
    /\ \A s \in Sockets :
        /\ \A n \in DOMAIN inbox[s] :
                IsInit(inbox[s][n]) => NoSocketId(inbox[s][n].initialState)
        /\ NoSocketId(peerObjects[s])
        /\ NoSocketId(JsonParse(SnapshotOf(s)).objects)

\* peer s1 committed a stroke before s2 joined: the buffer of the room, the
\* object sequence s2 got from its init list and the snapshot s2 saves all
\* carry s1's connection id, while s1's own copy carries none
C23_Witness ==
    /\ Quiet
    /\ Room \in DOMAIN rooms
    /\ Len(rooms[Room].canvasState) = 1
    /\ "socketId" \in DOMAIN rooms[Room].canvasState[1]
    /\ rooms[Room].canvasState[1].socketId = "s1"
    /\ Len(peerObjects["s2"]) = 1
    /\ peerObjects["s2"][1].type = "stroke" /\ peerObjects["s2"][1].socketId = "s1"
    /\ JsonParse(SnapshotOf("s2")).objects[1].socketId = "s1"
    /\ NoSocketId(peerObjects["s1"])

----------------------------------------------------------------------------
(* Properties of the viewport (SpecZoom).                                   *)

\* the step is a wheel notch or a zoom key
IsZoom(ev) == ev.kind \in {"wheel", "zoomIn", "zoomOut", "resetZoom"}

\* the step moves a pan: the mouse with the pan in progress, or one contact
\* in pan mode
PanStep ==
    \/ lastEv'.kind = "mouseMove" /\ isPanning
    \/ lastEv'.kind = "touchMove" /\ touchMode = "pan" /\ isPanning /\ Len(touches') = 1

\* the step is a pinch of two contacts
PinchStep == lastEv'.kind = "touchMove" /\ touchMode = "pinch" /\ Len(touches') = 2

ViewportLocal ==
    /\ (IsZoom(lastEv') \/ PanStep \/ PinchStep \/ viewportTransform' # viewportTransform)
        => /\ emitted' = << >>
           /\ objects' = objects
           /\ stickyNotes' = stickyNotes
    /\ IsInbound(lastEv') => viewportTransform' = viewportTransform

\* C24: the viewport transform is client-local: a pan, a wheel zoom, a pinch
\* zoom and a keyboard zoom emit no relay event and change neither the
\* objects nor the sticky notes, and no inbound relay event changes scale,
\* translateX or translateY.
C24_ViewportIsLocal == [][ViewportLocal]_vars

\* a stroke of a peer has arrived over a viewport zoomed by the wheel, and
\* the viewport is the zoomed one still
C24_Witness ==
    /\ IsInbound(lastEv) /\ lastEv.kind = "stroke"
    /\ Len(objects) = 1
    /\ viewportTransform.scale = Literal(11, 10)
    /\ viewportTransform.translateX # Whole(0)

ScaleInRange ==
    /\ ~FLess(viewportTransform.scale, Literal(1, 10))
    /\ ~FLess(Whole(10), viewportTransform.scale)

PanKeepsScale ==
    PanStep => viewportTransform'.scale = viewportTransform.scale

\* C25: in every reachable state the viewport scale lies in [0.1, 10], for
\* any sequence of wheel zooms, pinch zooms, keyboard zoom-in/zoom-out and
\* resets; panning changes only translateX and translateY and leaves scale
\* unchanged.
C25_ScaleClamped == []ScaleInRange /\ [][PanKeepsScale]_vars

\* the wheel has turned up with the scale at its upper limit
C25_Witness ==
    /\ lastEv.kind = "wheel" /\ ~lastEv.down
    /\ viewportTransform.scale = Whole(10)
    /\ ops = 2

----------------------------------------------------------------------------
(* Properties of the sticky notes (SpecNotes).                              *)

MinNoteSize == \A n \in DOMAIN stickyNotes :
                    stickyNotes[n].width >= 100 /\ stickyNotes[n].height >= 100

\* the step is a local move of the pointer that resizes the note n
ResizesNote(n) ==
    /\ lastEv'.kind \in {"noteMouseMove", "noteTouchMove"}
    /\ resizingStickyNote # Null
    /\ n \in DOMAIN stickyNotes
    /\ stickyNotes[n].id = resizingStickyNote
    /\ stickyNotes'[n] # stickyNotes[n]

OppositeEdgeKept ==
    \A n \in DOMAIN stickyNotes' :
        ResizesNote(n) =>
            /\ Includes(stickyNoteResizeHandle, "w") =>
                    stickyNotes'[n].x + stickyNotes'[n].width
                        = stickyNoteResizeStart.noteX + stickyNoteResizeStart.width
            /\ Includes(stickyNoteResizeHandle, "n") =>
                    stickyNotes'[n].y + stickyNotes'[n].height
                        = stickyNoteResizeStart.noteY + stickyNoteResizeStart.height

\* C26: every sticky note of the client's collection has width >= 100 and
\* height >= 100 after any sequence of local resizes (mouse or touch) and of
\* inbound stickyNote:resize events of peers that run this client, and a
\* local resize by a west or north handle keeps the opposite edge (x + width,
\* y + height) fixed, also when the minimum size clamps the drag.
C26_NoteMinimumSize == []MinNoteSize /\ [][OppositeEdgeKept]_vars

\* the north-west handle has been dragged past the minimum size: the note is
\* 100 by 100 with its south-east corner where it was
C26_Witness ==
    /\ resizingStickyNote = "n1" /\ stickyNoteResizeHandle = "nw"
    /\ lastEv.kind = "noteTouchMove"
    /\ stickyNotes = <<[Note1 EXCEPT !.x = 100, !.y = 100, !.width = 100, !.height = 100]>>

----------------------------------------------------------------------------
(* Properties of the resize of a shape (SpecResize).                        *)

\* the step is a move of the mouse that resizes the rectangle, ellipse or
\* triangle at position n of the sequence
ResizesShape(n) ==
    /\ lastEv'.kind = "mouseMove"
    /\ isResizing /\ resizeStartData # NullRec
    /\ n = resizeStartData.objectIndex + 1
    /\ n \in DOMAIN objects
    /\ TypeOf(objects[n]) \in ShapeTypes

\* the shape o resized by the handle and the pointer delta (dx, dy)
OppositeFixed(o, handle, dx, dy) ==
    [o EXCEPT !.x = IF Includes(handle, "w") THEN o.x + dx ELSE o.x,
              !.width = IF Includes(handle, "w") THEN o.width - dx
                        ELSE IF Includes(handle, "e") THEN o.width + dx ELSE o.width,
              !.y = IF Includes(handle, "n") THEN o.y + dy ELSE o.y,
              !.height = IF Includes(handle, "n") THEN o.height - dy
                         ELSE IF Includes(handle, "s") THEN o.height + dy ELSE o.height]

ShapeResizeStep ==
    \A n \in DOMAIN objects :
        ResizesShape(n) =>
            /\ objects' = [objects EXCEPT ![n] =
                    OppositeFixed(resizeStartData.originalObject, resizeHandle,
                                  EventPoint(lastEv').x - resizeStartData.x,
                                  EventPoint(lastEv').y - resizeStartData.y)]
            /\ resizeStartData' = resizeStartData

\* C27: resizing a rectangle, ellipse or triangle keeps the edge or corner
\* opposite the dragged handle fixed: for a pointer delta (dx, dy) measured
\* from the resize start, a handle containing 'e' yields width = w0 + dx with
\* x unchanged, 'w' yields x = x0 + dx and width = w0 - dx, 's' yields
\* height = h0 + dy with y unchanged, 'n' yields y = y0 + dy and
\* height = h0 - dy, and the axes the handle does not name are unchanged.
C27_ResizeKeepsOpposite == [][ShapeResizeStep]_vars

\* {0, 0, 40, 40} resized by its north-west handle by (20, 10) is
\* {20, 10, 20, 30}
C27_Witness ==
    /\ isResizing /\ resizeHandle = "nw"
    /\ lastEv.kind = "mouseMove"
    /\ objects = <<[NewShape("ellipse", 0, 0, 40, 40)
                        EXCEPT !.x = 20, !.y = 10, !.width = 20, !.height = 30]>>

----------------------------------------------------------------------------
(* Properties of the stroke hit test (SpecHit).                             *)

\* the square of the distance, in scene units, of a pointer at screen point
\* p from the stroke of one point
SqDistance(p) ==
    LET q == CanvasPoint(p.x, p.y)
    IN Sq(objects[1].points[1].x - q.x) + Sq(objects[1].points[1].y - q.y)

\* a pointer goes down with nothing selected on a scene of one stroke of one
\* point
HitTested ==
    /\ selectedObject = NoIndex
    /\ Len(objects) = 1 /\ TypeOf(objects[1]) = "stroke" /\ Len(objects[1].points) = 1
    /\ ~IsDeleted(objects[1])

MouseHit ==
    (HitTested /\ lastEv'.kind = "mouseDown")
        => (selectedObject' = 0 <=> SqDistance(Pt(lastEv'.x, lastEv'.y)) < Sq(10))

TouchHitAt20 ==
    (HitTested /\ lastEv'.kind = "touchStart" /\ Len(touches') = 1)
        => (selectedObject' = 0 <=> SqDistance(touches'[1]) < Sq(20))

TouchHitAt10 ==
    (HitTested /\ lastEv'.kind = "touchStart" /\ Len(touches') = 1)
        => (selectedObject' = 0 <=> SqDistance(touches'[1]) < Sq(10))

\* C28: the stroke hit test uses a threshold of 10 scene units for a mouse
\* pointer and 20 for a touch pointer: a stroke of a single point is hit by
\* a pointer at distance d iff d < 10 for mouse and iff d < 20 for touch,
\* also for the touch-start event that performs the selection itself (a
\* touch at distance 15 selects the stroke).
C28_TouchThreshold == [][MouseHit /\ TouchHitAt20]_vars

\* what the code does: the touch start that selects tests with the threshold
\* of the mouse
C28_TouchStartUsesMouseThreshold == [][MouseHit /\ TouchHitAt10]_vars

\* a contact has come down at distance 15 from the stroke and nothing is
\* selected
C28_Witness ==
    /\ lastEv.kind = "touchStart"
    /\ touches = <<Pt(65, 50)>>
    /\ isTouching /\ touchMode = "select"
    /\ objects = <<HitStroke>>
    /\ selectedObject = NoIndex

----------------------------------------------------------------------------
(* Properties of the coordinate conversions (SpecView).                     *)

\* a point has been converted and converted back under one viewport
RoundTripDone == lastEv.kind \in {"screenRoundTrip", "canvasRoundTrip"}

\* |r - v| <= 16 * 2^(-Precision) * (|v| + |t|), computed exactly: the three
\* numbers as multiples of 1/den for the largest of their denominators
\* (powers of two)
WithinTolerance(r, v, t) ==
    LET den == MaxOf({r.den, v.den, t.den})
        diff == Abs(r.num * (den \div r.den) - v.num * (den \div v.den))
        size == Abs(v.num) * (den \div v.den) + Abs(t.num) * (den \div t.den)
    IN diff <= (16 * size) \div Pow2(Precision)

\* C29 as stated: for every viewport transform with scale in [0.1, 10] and
\* every screen point p, canvasToScreen(screenToCanvas(p)) = p, and
\* screenToCanvas(canvasToScreen(q)) = q for every scene point q.
C29_RoundTripExact == RoundTripDone => lastEv.back = lastEv.from

\* C29: for every viewport transform with scale in [0.1, 10], converting a
\* screen point to scene coordinates and back, or a scene point to screen
\* coordinates and back, returns the point within floating-point tolerance:
\* each coordinate differs from the original by at most 16 units of rounding
\* (2^-Precision) times the sum of the magnitudes of the coordinate and of
\* the translation of the viewport on that axis.
C29_RoundTripWithinTolerance ==
    RoundTripDone =>
        /\ WithinTolerance(lastEv.back.x, lastEv.from.x, viewportTransform.translateX)
        /\ WithinTolerance(lastEv.back.y, lastEv.from.y, viewportTransform.translateY)

\* a round trip that returns another point than it started from
C29_Witness ==
    /\ RoundTripDone
    /\ viewportTransform.scale # Whole(1)
    /\ viewportTransform.translateX # Whole(0)
    /\ lastEv.back # lastEv.from

----------------------------------------------------------------------------
(* Properties of object creation by tool (SpecGesture).                     *)

\* every stroke of the sequence was drawn with the pen or the eraser
StrokeTools ==
    \A i \in DOMAIN objects :
        TypeOf(objects[i]) = "stroke" => objects[i].tool \in {"pen", "erase"}

\* the mouse goes down or up with the text or the sticky-note tool selected
NoteOrTextPress ==
    /\ tool \in {"text", "stickyNote"}
    /\ lastEv'.kind \in {"mouseDown", "mouseUp"}

\* such a step appends nothing and emits neither draw nor stroke
NoStrayStroke ==
    NoteOrTextPress =>
        /\ objects' = objects
        /\ EmittedKinds(emitted') \cap {"draw", "stroke"} = {}

\* C30: scene objects are created only by completing a stroke or shape with
\* a draw-family tool or by submitting text: every stroke object in the
\* sequence has tool 'pen' or 'erase', and a pointer-down/pointer-up with
\* the text or stickyNote tool selected appends no object to the sequence
\* and emits no draw or stroke patch.
C30_ObjectsByDrawTools == []StrokeTools /\ [][NoStrayStroke]_vars

\* the mouse went down and up with the text tool and left a stroke of one
\* point with tool 'text' in the sequence
C30_Witness ==
    /\ tool = "text"
    /\ lastEv.kind = "mouseUp"
    /\ Len(objects) = 1
    /\ TypeOf(objects[1]) = "stroke"
    /\ objects[1].tool = "text"
    /\ Len(objects[1].points) = 1
    /\ "stroke" \in EmittedKinds(emitted)

----------------------------------------------------------------------------
(* Properties of the init of the relay (Spec).                              *)

\* the relay's init arrives with an empty list after the snapshot was loaded
EmptyInitAfterLoad ==
    /\ initialSceneLoaded
    /\ IsInbound(lastEv') /\ lastEv'.kind = "init"
    /\ lastEv'.event.initialState = << >>

\* C31: the client tolerates an empty or stale init: once it has loaded
\* objects from the persisted snapshot, receiving an init list that is empty
\* does not discard the loaded objects (every assigned index keeps its
\* object), so no later auto-save can overwrite the persisted snapshot with
\* a scene that lost them.
C31_InitTolerated == [][EmptyInitAfterLoad => KeepsIndices(objects, objects')]_vars

\* the empty init has emptied the scene loaded from the snapshot and the
\* timer that will save the empty scene over the snapshot is pending
C31_Witness ==
    /\ IsInbound(lastEv) /\ lastEv.kind = "init"
    /\ initialSceneLoaded
    /\ Len(initialScene.objects) > 0
    /\ Len(JsonParse(sceneJson).objects) > 0
    /\ objects = << >>
    /\ autoSaveTimer # NullRec
    /\ autoSaveTimer.objects = << >>

----------------------------------------------------------------------------
(* Properties of the resize gesture (SpecReshape).                          *)

\* the step is a mouse move that resizes
ResizeMove ==
    /\ lastEv'.kind = "mouseMove"
    /\ tool = "select" /\ isResizing /\ resizeStartData # NullRec
    /\ HasIndex(objects, resizeStartData.objectIndex)

\* the session as it was when the pointer went down on the handle
AtPress ==
    [Client EXCEPT !.objects = SetAt(objects, resizeStartData.objectIndex,
                                     resizeStartData.originalObject)]

\* the move yields what a single move from the press to the same point yields
SameAsSingleMove ==
    ResizeMove =>
        objects' = DrawResize(AtPress, EventPoint(lastEv').x, EventPoint(lastEv').y).objects

\* the fields of an object of variant t a resize patch carries
PatchFields(t) ==
    IF t = "text" THEN {"fontSize"}
    ELSE IF t = "stroke" THEN {"points"}
    ELSE IF t \in ShapeTypes THEN {"x", "y", "width", "height"}
    ELSE {"x1", "y1", "x2", "y2"}

\* the release that ends a resize emits one patch, with the index of the
\* object and its geometry as the last move left it
PatchCarriesGeometry ==
    (lastEv'.kind = "mouseUp" /\ tool = "select" /\ isResizing /\ resizeStartData # NullRec
        /\ HasIndex(objects, resizeStartData.objectIndex))
    => LET obj == At(objects, resizeStartData.objectIndex)
       IN /\ objects' = objects
          /\ Len(emitted') = 1
          /\ emitted'[1].kind \in {"resize", "resizeStroke", "resizeShape", "resizeLine"}
          /\ emitted'[1].index = resizeStartData.objectIndex
          /\ DOMAIN emitted'[1] = {"kind", "index"} \cup PatchFields(TypeOf(obj))
          /\ \A f \in PatchFields(TypeOf(obj)) : emitted'[1][f] = obj[f]

\* C32: a local resize is computed from the pre-resize snapshot, so it is
\* path-independent: for any sequence of pointer moves during one resize
\* gesture of a shape, line or arrow, stroke or text, the geometry after the
\* last move equals the geometry a single move to the final pointer position
\* gives, and the absolute patch emitted at pointer-up carries exactly that
\* geometry.
C32_ResizePathIndependent == [][SameAsSingleMove /\ PatchCarriesGeometry]_vars

\* the stroke has been resized by two moves in a row and released: the patch
\* carries the points of the second move
C32_Witness ==
    /\ lastEv.kind = "mouseUp"
    /\ ~isResizing
    /\ TypeOf(objects[1]) = "stroke"
    /\ objects[1].points # <<Pt(0, 0), Pt(40, 40)>>
    /\ Len(emitted) = 1 /\ emitted[1].kind = "resizeStroke"
    /\ emitted[1].points = objects[1].points

----------------------------------------------------------------------------
(* Properties of the stroke hit test over segments (SpecPolyline).          *)

\* the point (x, y) is closer than th to the segment from a to b
NearSegment(x, y, a, b, th) ==
    LET len2 == Sq(b.x - a.x) + Sq(b.y - a.y)
        dot == (x - a.x) * (b.x - a.x) + (y - a.y) * (b.y - a.y)
        pa2 == Sq(x - a.x) + Sq(y - a.y)
        pb2 == Sq(x - b.x) + Sq(y - b.y)
    IN IF len2 = 0 \/ dot <= 0 THEN pa2 < Sq(th)
       ELSE IF dot >= len2 THEN pb2 < Sq(th)
       ELSE pa2 * len2 - dot * dot < Sq(th) * len2

\* the minimum distance from (x, y) to the polyline through points is below th
NearPolyline(x, y, points, th) ==
    \/ \E i \in 1..Len(points) : NearSegment(x, y, points[i], points[i], th)
    \/ \E i \in 1..(Len(points) - 1) : NearSegment(x, y, points[i], points[i + 1], th)

\* some point of the stroke is closer than th to (x, y)
NearVertex(x, y, points, th) ==
    \E i \in 1..Len(points) : Sq(points[i].x - x) + Sq(points[i].y - y) < Sq(th)

\* the mouse goes down with nothing selected on a scene of one stroke
StrokeTested ==
    /\ lastEv'.kind = "mouseDown"
    /\ tool = "select" /\ selectedObject = NoIndex
    /\ Len(objects) = 1 /\ TypeOf(objects[1]) = "stroke" /\ ~IsDeleted(objects[1])

PolylineHit ==
    StrokeTested =>
        LET q == EventPoint(lastEv')
        IN selectedObject' = 0 <=> NearPolyline(q.x, q.y, objects[1].points, 10)

VertexHit ==
    StrokeTested =>
        LET q == EventPoint(lastEv')
        IN selectedObject' = 0 <=> NearVertex(q.x, q.y, objects[1].points, 10)

\* C33: the stroke hit test agrees with point-to-polyline minimum distance:
\* for every stroke and pointer position, isPointInStroke returns true iff
\* the minimum distance from the pointer to the polyline through the
\* stroke's points (segments included, not only the vertices) is below the
\* threshold.
C33_PolylineDistance == [][PolylineHit]_vars

\* what the code does: the stroke is hit iff one of its points is closer
\* than the threshold
C33_VertexDistance == [][VertexHit]_vars

\* the mouse has gone down on the middle of the stroke from (10, 50) to
\* (90, 50) and nothing is selected
C33_Witness ==
    /\ lastEv.kind = "mouseDown" /\ EventPoint(lastEv) = Pt(50, 50)
    /\ objects = <<NewStroke(<<Pt(10, 50), Pt(90, 50)>>, "pen")>>
    /\ selectedObject = NoIndex
    /\ ~isDragging

----------------------------------------------------------------------------
(* Properties of the members taking turns (SpecTurns).                      *)

GeometryFields ==
    {"points", "x", "y", "width", "height", "x1", "y1", "x2", "y2", "fontSize"}

\* type, geometry and deleted flag of the objects, index by index
SceneView(objs) ==
    [n \in DOMAIN objs |->
        [type |-> TypeOf(objs[n]),
         deleted |-> IsDeleted(objs[n]),
         geometry |-> [f \in (DOMAIN objs[n]) \cap GeometryFields |-> objs[n][f]]]]

\* the sockets that have joined the room
Joined == {s \in Sockets : <<s, Room>> \in adapter}

\* C34: without concurrency the system converges: in a room whose members
\* all received init on joining, if every operation (commit, each drag move,
\* resize, delete) is relayed and applied by all members before the next
\* operation is issued by any member, then at quiescence every member's
\* object sequence and the relay's replay buffer are equal index by index in
\* type, geometry and deleted flag, and a socket joining afterwards obtains
\* the same sequence.
C34_TurnsConverge ==
    (Quiet /\ Joined # {}) =>
        \A s \in Joined : SceneView(peerObjects[s]) = SceneView(rooms[Room].canvasState)

\* s2 has joined after s1 had issued its operations, the last of them on an
\* object it had moved, resized or deleted, and holds what s1 and the relay hold
C34_Witness ==
    /\ lastEv.kind = "receive" /\ lastEv.peer = "s2" /\ lastEv.event = "init"
    /\ Quiet /\ Joined = Sockets
    /\ ops = MaxTurns
    /\ Len(peerObjects["s2"]) = 1
    /\ peerObjects["s1"] # << >>

----------------------------------------------------------------------------
(* Properties of the selection under inbound events (Spec).                 *)

\* index names an object of the sequence that is not tombstoned
LiveIndex(index) == HasIndex(objects, index) /\ ~IsDeleted(At(objects, index))

\* C35: in every reachable state, a non-null selectedObject (and the
\* objectIndex of a resize in progress) is a valid index of a non-deleted
\* object in the object sequence, also after inbound clear, init and delete
\* events arrive during a selection or drag, so a drag or resize move never
\* dereferences a missing object and never moves or re-emits patches for a
\* tombstoned one.
C35_SelectionLive ==
    /\ selectedObject # NoIndex => LiveIndex(selectedObject)
    /\ (isResizing /\ resizeStartData # NullRec) => LiveIndex(resizeStartData.objectIndex)
    /\ ~crashed

\* an inbound clear has emptied the scene under a drag, and the next move of
\* the drag has read the type of an object that is no longer there
C35_Witness ==
    /\ crashed
    /\ lastEv.kind = "mouseMove"
    /\ isDragging /\ selectedObject = 0
    /\ objects = << >>
    /\ Len(emitted) = 1 /\ emitted[1].kind = "move" /\ emitted[1].index = 0

\* an inbound delete has tombstoned the object under a drag, and the next
\* move of the drag has moved it and emitted a move patch for it
C35_TombstoneDragged ==
    /\ ~crashed
    /\ lastEv.kind = "mouseMove"
    /\ isDragging /\ selectedObject = 0
    /\ HasIndex(objects, 0) /\ IsDeleted(At(objects, 0))
    /\ Len(emitted) = 1 /\ emitted[1].kind = "move" /\ emitted[1].index = 0

----------------------------------------------------------------------------
(* Properties of the end of a touch interaction (SpecFingers).              *)

\* no gesture is under way and no stroke is held
InteractionIdle ==
    /\ ~isDrawing /\ ~isDrawingShape /\ ~isDragging /\ ~isResizing /\ ~isPanning
    /\ currentStroke = << >>

\* C36: after the last touch contact lifts, for every preceding sequence of
\* touch starts, moves and ends (including one finger drawing, a second
\* finger starting a pinch, then the fingers lifting one by one), the
\* interaction is idle: none of isDrawing, isDrawingShape, isDragging,
\* isResizing or isPanning remains set, no live stroke remains, and any
\* stroke that had been started was either committed with a stroke patch or
\* discarded.
C36_IdleAfterLastLift ==
    (lastEv.kind = "touchEnd" /\ touches = << >>) => InteractionIdle

\* one finger has drawn, a second has started a pinch, both have lifted one
\* by one: the stroke is still under way and nothing has been committed
C36_Witness ==
    /\ lastEv.kind = "touchEnd" /\ touches = << >>
    /\ touchMode = Null /\ ~isTouching /\ ~isPanning
    /\ tool = "pen"
    /\ isDrawing /\ currentStroke # << >>
    /\ objects = << >>
    /\ emitted = << >>

----------------------------------------------------------------------------
(* Properties of the sticky-note ids (SpecReplay).                          *)

\* no two notes of the sequence have the same id
UniqueIds(notes) ==
    \A n, k \in DOMAIN notes : notes[n].id = notes[k].id => n = k

\* C37: sticky-note ids are unique within each client's collection and
\* within the relay's buffer in every reachable state: no sequence of
\* loading the persisted snapshot, joining a room (which replays the relay's
\* buffered notes as stickyNote:create), and local or inbound create/delete
\* events leaves two notes with the same id.
C37_NoteIdsUnique ==
    /\ UniqueIds(stickyNotes)
    /\ \A r \in DOMAIN rooms : UniqueIds(rooms[r].stickyNotes)

\* the buffer of the relay keeps its ids apart
C37_RelayIdsUnique == \A r \in DOMAIN rooms : UniqueIds(rooms[r].stickyNotes)

\* the page has been loaded again: the Whiteboard has loaded the note from
\* the snapshot and has received the same note from the relay's replay
C37_Witness ==
    /\ IsInbound(lastEv) /\ lastEv.kind = "stickyNote:create"
    /\ initialSceneLoaded
    /\ Len(stickyNotes) = 2 /\ stickyNotes[1] = stickyNotes[2]
    /\ Len(JsonParse(sceneJson).stickyNotes) = 1
    /\ Room \in DOMAIN rooms /\ Len(rooms[Room].stickyNotes) = 1
    /\ rooms[Room].stickyNotes[1].id = stickyNotes[1].id

----------------------------------------------------------------------------
(* Properties of the membership of the relay (SpecRelay).                   *)

\* the rooms socket s is subscribed to, and those that list it as a user
SubscribedTo(s) == {r \in Rooms : <<s, r>> \in adapter}
ListedIn(s) == {r \in DOMAIN rooms : s \in rooms[r].users}

\* C38: on the relay a socket belongs to at most one room at a time: after a
\* socket sends join-room for a second room it is no longer subscribed to,
\* nor listed as a user of, the first room, and after it disconnects it
\* appears in no room's user list.
C38_OneRoomAtATime ==
    \A s \in Sockets :
        /\ Cardinality(SubscribedTo(s)) <= 1
        /\ Cardinality(ListedIn(s)) <= 1
        /\ conn[s] = "closed" => ListedIn(s) = {}

\* a socket has joined r1, then r2, and has disconnected: it is still listed
\* as a user of the room it joined first
C38_Witness ==
    /\ lastEv.kind = "disconnect"
    /\ conn[lastEv.from] = "closed"
    /\ currentRoom[lastEv.from] = "r2"
    /\ ListedIn(lastEv.from) = {"r1"}
    /\ SubscribedTo(lastEv.from) = {}

C39_OnlyCursorMoveChecksSender ==
    [][(lastEv'.kind = "cursor:move" /\ <<lastEv'.from, lastEv'.roomId>> \notin adapter)
        => (inbox' = NoDelivery /\ rooms' = rooms)]_vars

----------------------------------------------------------------------------
(* Properties of the provisional strokes under presence (FairSpecPresence). *)

\* the Whiteboard holds a provisional stroke of the peer
HoldsPeerStroke == Peer \in DOMAIN remoteStrokes

\* C40: every provisional remote stroke is eventually removed: for each peer
\* that starts a stroke, the receiving client's provisional entry for that
\* peer is cleared either by the peer's stroke commit or when the peer
\* disconnects or leaves the room, so no provisional entry outlives its
\* owner's presence.
C40_ProvisionalRemoved == HoldsPeerStroke ~> ~HoldsPeerStroke

\* the peer has started a stroke and has disconnected without a commit; the
\* Whiteboard has handled all the relay sent, user:left and cursor:leave
\* last, and still holds the provisional stroke
C40_Witness ==
    /\ IsInbound(lastEv) /\ lastEv.kind = "cursor:leave" /\ lastEv.event.odId = Peer
    /\ conn[Peer] = "closed"
    /\ inbox[SocketId] = << >>
    /\ uplink[Peer] = << >>
    /\ HoldsPeerStroke
    /\ objects = initialScene.objects

\* what the code does: the entry of a peer goes with the peer's stroke commit
\* and with nothing else
C40_OnlyCommitRemoves ==
    [][(HoldsPeerStroke /\ ~HoldsPeerStroke')
        => (IsInbound(lastEv') /\ lastEv'.kind = "stroke"
            /\ lastEv'.event.data.socketId = Peer)]_vars

============================================================================
